---- MODULE Spec2Model ----
(***************************************************************************)
(* Sheet ingestion and sync engine of the crop logger: the tabular parser  *)
(* and the Qualifiers parser of the sync route, the Convex mutations that  *)
(* reconcile their output with the store, and the client loop that syncs   *)
(* every tracked sheet.  Every Convex mutation is one transaction, so each *)
(* mutation is one action; a route that issues several mutations is        *)
(* several actions.                                                        *)
(***************************************************************************)
EXTENDS Integers, Sequences, FiniteSets, TLC

VARIABLES
  sheets,               \* table "sheets": RawSheetSnapshots, in creation order
  crops,                \* table "crops": PlantingRecords, in creation order
  qualifiers,           \* table "qualifiers": QualifierDefinitions
  universalQualifiers,  \* table "universalQualifiers"
  settings,             \* table "settings": None or the single settings record
  nextId,               \* the next document id the store hands out
  qreq,                 \* the Qualifiers sync request in flight, or None
  run,                  \* the syncAllSheets loop of the analytics page
  qualityLogs,          \* table "qualityLogs": QualityLogs, in creation order
  now,                  \* Date.now() of the server
  reply                 \* the answer to the last call of the observed client

vars == <<sheets, crops, qualifiers, universalQualifiers, settings,
          nextId, qreq, run,
         qualityLogs, now, reply>>

\* The variables of the quality logs and of the observed client
logVars == <<qualityLogs, now, reply>>

(***************************************************************************)
(* Strings.  A string is a sequence of one-character strings, so that the  *)
(* parsers' split, trim and search are computed and not assumed.           *)
(* Undefined stands for JavaScript's undefined (a missing cell of a ragged *)
(* row, an absent optional field).                                         *)
(***************************************************************************)
Undefined == <<"undefined">>

Truthy(s) == s # Undefined /\ s # <<>>

OrEmpty(s) == IF Truthy(s) THEN s ELSE <<>>

IsSpace(c) == c \in {" ", "\t", "\n", "\r"}

RECURSIVE TrimStart(_)
TrimStart(s) ==
  IF s # <<>> /\ IsSpace(Head(s)) THEN TrimStart(Tail(s)) ELSE s

RECURSIVE TrimEnd(_)
TrimEnd(s) ==
  IF s # <<>> /\ IsSpace(s[Len(s)]) THEN TrimEnd(SubSeq(s, 1, Len(s) - 1)) ELSE s

Trim(s) == TrimEnd(TrimStart(s))

StartsWith(s, p) == Len(s) >= Len(p) /\ SubSeq(s, 1, Len(p)) = p

EndsWith(s, p) == Len(s) >= Len(p) /\ SubSeq(s, Len(s) - Len(p) + 1, Len(s)) = p

\* 1-based position of the first occurrence of p in s, 0 when there is none
IndexOf(s, p) ==
  LET hits == {i \in 1..(Len(s) - Len(p) + 1) : SubSeq(s, i, i + Len(p) - 1) = p}
  IN  IF hits = {} THEN 0 ELSE CHOOSE i \in hits : \A j \in hits : i <= j

\* 1-based position of the last occurrence of p in s, 0 when there is none
LastIndexOf(s, p) ==
  LET hits == {i \in 1..(Len(s) - Len(p) + 1) : SubSeq(s, i, i + Len(p) - 1) = p}
  IN  IF hits = {} THEN 0 ELSE CHOOSE i \in hits : \A j \in hits : i >= j

Includes(s, p) == IndexOf(s, p) # 0

RECURSIVE Split(_, _)
Split(s, sep) ==
  LET i == IndexOf(s, sep)
  IN  IF i = 0 THEN <<s>>
      ELSE <<SubSeq(s, 1, i - 1)>> \o Split(SubSeq(s, i + Len(sep), Len(s)), sep)

MapTrim(parts) == [i \in 1..Len(parts) |-> Trim(parts[i])]

UpperLetters ==
  <<"A","B","C","D","E","F","G","H","I","J","K","L","M",
    "N","O","P","Q","R","S","T","U","V","W","X","Y","Z">>

LowerLetters ==
  <<"a","b","c","d","e","f","g","h","i","j","k","l","m",
    "n","o","p","q","r","s","t","u","v","w","x","y","z">>

LowerChar(c) ==
  IF \E i \in 1..26 : UpperLetters[i] = c
  THEN LowerLetters[CHOOSE i \in 1..26 : UpperLetters[i] = c]
  ELSE c

ToLowerCase(s) == [i \in 1..Len(s) |-> LowerChar(s[i])]

\* array[i] of JavaScript with a 0-based index: undefined beyond the end
At(arr, i) == IF i + 1 <= Len(arr) THEN arr[i + 1] ELSE Undefined

\* An optional value: None when absent, Some(v) when present
None == <<>>

Some(v) == <<v>>

(***************************************************************************)
(* The tabular parser of the sync route.                                   *)
(***************************************************************************)

\* Position after the whitespace run that starts at p (p itself when s[p] is
\* not whitespace)
RECURSIVE SkipSpaces(_, _)
SkipSpaces(s, p) ==
  IF p <= Len(s) /\ IsSpace(s[p]) THEN SkipSpaces(s, p + 1) ELSE p

\* verb \s+ (kw1|kw2) \s+ (.+?) (?:\s+in\s+|$) matches at position p,
\* case-insensitively: the lazy group needs one more character after at least
\* one whitespace, and the end of the string always closes the match
TriggerAt(s, p, verb, kws) ==
  LET low == ToLowerCase(s)
      a   == p + Len(verb)
      b   == SkipSpaces(low, a)
  IN  /\ p >= 1
      /\ a - 1 <= Len(low)
      /\ SubSeq(low, p, a - 1) = verb
      /\ b > a
      /\ \E kw \in kws :
           LET c == b + Len(kw)
           IN  /\ c - 1 <= Len(low)
               /\ SubSeq(low, b, c - 1) = kw
               /\ c <= Len(low)
               /\ IsSpace(low[c])
               /\ c + 1 <= Len(low)

Replaced == <<"r","e","p","l","a","c","e","d">>

Replanted == <<"r","e","p","l","a","n","t","e","d">>

With == <<"w","i","t","h">>

By == <<"b","y">>

\* End positions k of the optional leading group (.+?) of the first pattern:
\* s[1..k-1] is the group, whitespace runs from k to the trigger
LeadEnds(s) ==
  {k \in 2..Len(s) :
     /\ IsSpace(s[k])
     /\ \E j \in k..Len(s) :
          /\ \A m \in k..j : IsSpace(s[m])
          /\ TriggerAt(s, j + 1, Replaced, {With, By})}

parseReplantingNotesReplantedFirst(notes) ==
  IF ~Truthy(notes) THEN None
  ELSE IF \E p \in 1..Len(notes) : TriggerAt(notes, p, Replanted, {With})
  THEN Some([originalCrop |-> Undefined,
             originalVariety |-> Undefined,
             replantingNote |-> notes])
  ELSE IF \E p \in 1..Len(notes) : TriggerAt(notes, p, Replaced, {With, By})
  THEN LET ks == LeadEnds(notes)
           originalText ==
             IF ks = {} THEN <<>>
             ELSE Trim(SubSeq(notes, 1, (CHOOSE k \in ks : \A j \in ks : k <= j) - 1))
           originalParts ==
             IF Includes(originalText, <<":">>)
             THEN MapTrim(Split(originalText, <<":">>))
             ELSE <<originalText, <<>>>>
       IN  Some([originalCrop |-> originalParts[1],
                 originalVariety |-> originalParts[2],
                 replantingNote |-> notes])
  ELSE None

parseReplantingNotes(notes) ==
  IF ~Truthy(notes) THEN None
  ELSE IF LeadEnds(notes) # {} \/ \E p \in 1..Len(notes) : TriggerAt(notes, p, Replaced, {With, By})
  THEN LET ks == LeadEnds(notes)
           originalText ==
             IF ks = {} THEN Undefined
             ELSE Trim(SubSeq(notes, 1, (CHOOSE k \in ks : \A j \in ks : k <= j) - 1))
           originalParts ==
             IF originalText # Undefined /\ Includes(originalText, <<":">>)
             THEN MapTrim(Split(originalText, <<":">>))
             ELSE <<originalText, <<>>>>
       IN  Some([originalCrop |-> OrEmpty(At(originalParts, 0)),
                 originalVariety |-> OrEmpty(At(originalParts, 1)),
                 replantingNote |-> notes])
  ELSE IF \E p \in 1..Len(notes) : TriggerAt(notes, p, Replanted, {With})
  THEN Some([originalCrop |-> Undefined,
             originalVariety |-> Undefined,
             replantingNote |-> notes])
  ELSE None

SlashSep == <<" ", "/", " ">>

\* crop and variety of one "crop:variety" token (destructuring takes the
\* first two parts of the split)
CropOf(token) ==
  IF token # Undefined /\ Includes(token, <<":">>)
  THEN At(MapTrim(Split(token, <<":">>)), 0)
  ELSE OrEmpty(token)

VarietyOf(token) ==
  IF token # Undefined /\ Includes(token, <<":">>)
  THEN At(MapTrim(Split(token, <<":">>)), 1)
  ELSE <<>>

\* The records of a multi-crop row, sub-entries i..
RECURSIVE MultiCropRecords(_, _, _, _, _)
MultiCropRecords(row, sheetName, cropParts, traysParts, i) ==
  IF i >= Len(cropParts) THEN <<>>
  ELSE LET cropPart == At(cropParts, i)
           trayPart ==
             IF Truthy(At(traysParts, i)) THEN At(traysParts, i)
             ELSE OrEmpty(At(traysParts, 0))
           crop == CropOf(cropPart)
           variety == VarietyOf(cropPart)
           rec == [field |-> sheetName,
                   bed |-> OrEmpty(At(row, 0)),
                   crop |-> Trim(crop),
                   variety |-> Trim(variety),
                   trays |-> trayPart,
                   rows |-> OrEmpty(At(row, 3)),
                   date |-> OrEmpty(At(row, 4)),
                   notes |-> OrEmpty(At(row, 5))]
       IN  (IF Trim(crop) # <<>> THEN <<rec>> ELSE <<>>)
           \o MultiCropRecords(row, sheetName, cropParts, traysParts, i + 1)

\* The records one grid row contributes
RowRecords(row, sheetName) ==
  LET bed == At(row, 0)
      cropVariety == At(row, 1)
      trays == At(row, 2)
      notes == At(row, 5)
  IN  IF ~Truthy(bed) /\ ~Truthy(cropVariety) THEN <<>>
      ELSE IF cropVariety # Undefined /\ Includes(cropVariety, SlashSep)
      THEN MultiCropRecords(row, sheetName,
             MapTrim(Split(cropVariety, SlashSep)),
             IF trays # Undefined /\ Includes(trays, SlashSep)
             THEN MapTrim(Split(trays, SlashSep))
             ELSE <<OrEmpty(trays)>>,
             0)
      ELSE LET crop == CropOf(cropVariety)
               variety == VarietyOf(cropVariety)
               rec == [field |-> sheetName,
                       bed |-> OrEmpty(bed),
                       crop |-> Trim(crop),
                       variety |-> Trim(variety),
                       trays |-> OrEmpty(trays),
                       rows |-> OrEmpty(At(row, 3)),
                       date |-> OrEmpty(At(row, 4)),
                       notes |-> OrEmpty(notes)]
               info == parseReplantingNotes(OrEmpty(notes))
           IN  IF Trim(crop) = <<>> THEN <<>>
               ELSE IF info = None THEN <<rec>>
               ELSE <<rec @@ [replantedFrom |->
                        [crop |-> OrEmpty(info[1].originalCrop),
                         variety |-> OrEmpty(info[1].originalVariety),
                         date |-> <<>>,
                         notes |-> OrEmpty(info[1].replantingNote)]]>>

RECURSIVE ParseRows(_, _)
ParseRows(rows, sheetName) ==
  IF rows = <<>> THEN <<>>
  ELSE RowRecords(Head(rows), sheetName) \o ParseRows(Tail(rows), sheetName)

parseSheetDataWithHeader(data, sheetName) == ParseRows(data, sheetName)

parseSheetData(data, sheetName) ==
  IF Len(data) = 0 THEN <<>> ELSE ParseRows(Tail(data), sheetName)

(***************************************************************************)
(* The Qualifiers parser.                                                  *)
(***************************************************************************)
parseCropNameAndLocation(fullName) ==
  LET commaIndex == LastIndexOf(fullName, <<",">>)
  IN  IF commaIndex = 0
      THEN [name |-> Trim(fullName), location |-> Undefined]
      ELSE [name |-> Trim(SubSeq(fullName, 1, commaIndex - 1)),
            location |-> Trim(SubSeq(fullName, commaIndex + 1, Len(fullName)))]

SelectNonEmpty(parts) == SelectSeq(parts, LAMBDA n : Len(n) > 0)

\* The questions of a header row: the cells from column B on that end in "?"
RECURSIVE HeaderQuestions(_, _)
HeaderQuestions(row, col) ==
  IF col >= Len(row) THEN <<>>
  ELSE LET cell == Trim(OrEmpty(At(row, col)))
       IN  (IF cell # <<>> /\ EndsWith(cell, <<"?">>)
            THEN <<[name |-> cell, options |-> <<>>]>> ELSE <<>>)
           \o HeaderQuestions(row, col + 1)

\* One option row applied to the current assessments, columns col..
RECURSIVE AddOptions(_, _, _)
AddOptions(assessments, row, col) ==
  IF col >= Len(row) THEN assessments
  ELSE LET cell == Trim(OrEmpty(At(row, col)))
           questionIndex == col - 1
           option == IF StartsWith(cell, <<"-", " ">>)
                     THEN Trim(SubSeq(cell, 3, Len(cell))) ELSE cell
           pushed ==
             IF /\ cell # <<>>
                /\ questionIndex < Len(assessments)
                /\ option # <<>>
                /\ ~EndsWith(option, <<"?">>)
             THEN [assessments EXCEPT ![questionIndex + 1].options = Append(@, option)]
             ELSE assessments
       IN  AddOptions(pushed, row, col + 1)

\* One vegetable entry per name of the current block
FlushBlock(acc) ==
  IF Len(acc.names) > 0 /\ Len(acc.assessments) > 0
  THEN acc.vegetables \o
       [i \in 1..Len(acc.names) |->
          [name |-> parseCropNameAndLocation(acc.names[i]).name,
           location |-> parseCropNameAndLocation(acc.names[i]).location,
           assessments |-> acc.assessments]]
  ELSE acc.vegetables

RECURSIVE ParseBlocks(_, _)
ParseBlocks(data, acc) ==
  IF data = <<>> THEN FlushBlock(acc)
  ELSE LET row == Head(data)
           firstCell == Trim(OrEmpty(At(row, 0)))
       IN  IF Len(row) = 0 THEN ParseBlocks(Tail(data), acc)
           ELSE IF firstCell # <<>> /\ ~StartsWith(firstCell, <<"-">>)
           THEN ParseBlocks(Tail(data),
                  [vegetables |-> FlushBlock(acc),
                   names |-> SelectNonEmpty(MapTrim(Split(firstCell, <<"/">>))),
                   assessments |-> HeaderQuestions(row, 1)])
           ELSE IF Len(acc.names) > 0 /\ Len(acc.assessments) > 0
           THEN ParseBlocks(Tail(data),
                  [acc EXCEPT !.assessments = AddOptions(@, row, 1)])
           ELSE ParseBlocks(Tail(data), acc)

HasAssessment(veg, name) ==
  \E i \in 1..Len(veg.assessments) : veg.assessments[i].name = name

\* The keys of a Map in insertion order: the distinct elements of a sequence
\* in the order of their first occurrence
RECURSIVE Distinct(_, _)
Distinct(seq, seen) ==
  IF seq = <<>> THEN <<>>
  ELSE IF Head(seq) \in seen THEN Distinct(Tail(seq), seen)
  ELSE <<Head(seq)>> \o Distinct(Tail(seq), seen \cup {Head(seq)})

RECURSIVE AssessmentNames(_)
AssessmentNames(vegs) ==
  IF vegs = <<>> THEN <<>>
  ELSE [i \in 1..Len(Head(vegs).assessments) |-> Head(vegs).assessments[i].name]
       \o AssessmentNames(Tail(vegs))

\* assessmentData: the options and the index of the first occurrence
FirstOccurrence(vegs, name) ==
  LET v == CHOOSE v \in 1..Len(vegs) :
             /\ HasAssessment(vegs[v], name)
             /\ \A w \in 1..(v - 1) : ~HasAssessment(vegs[w], name)
      i == CHOOSE i \in 1..Len(vegs[v].assessments) :
             /\ vegs[v].assessments[i].name = name
             /\ \A j \in 1..(i - 1) : vegs[v].assessments[j].name # name
  IN  [name |-> name, options |-> vegs[v].assessments[i].options, order |-> i - 1]

\* Array.prototype.sort by order (stable)
RECURSIVE InsertByOrder(_, _)
InsertByOrder(sorted, q) ==
  IF sorted = <<>> THEN <<q>>
  ELSE IF Head(sorted).order <= q.order
  THEN <<Head(sorted)>> \o InsertByOrder(Tail(sorted), q)
  ELSE <<q>> \o sorted

RECURSIVE SortByOrder(_)
SortByOrder(qs) ==
  IF qs = <<>> THEN <<>>
  ELSE InsertByOrder(SortByOrder(SubSeq(qs, 1, Len(qs) - 1)), qs[Len(qs)])

IsUniversalInFirst(vegs, name) ==
  Len(vegs) > 0 /\ HasAssessment(vegs[1], name)

\* A question is universal when every surviving vegetable has it
IsUniversal(vegs, name) ==
  Cardinality({v \in 1..Len(vegs) : HasAssessment(vegs[v], name)}) = Len(vegs)

parseQualifiersSheet(data) ==
  IF Len(data) = 0 THEN [vegetables |-> <<>>, universalQualifiers |-> <<>>]
  ELSE
  LET vegetables == ParseBlocks(data, [vegetables |-> <<>>, names |-> <<>>,
                                        assessments |-> <<>>])
      filteredVegetables ==
        SelectSeq(vegetables, LAMBDA v :
          /\ Len(v.assessments) > 0
          /\ \E i \in 1..Len(v.assessments) : Len(v.assessments[i].options) > 0)
      names == Distinct(AssessmentNames(filteredVegetables), {})
      universalNames ==
        SelectSeq(names, LAMBDA n : IsUniversal(filteredVegetables, n))
      universal ==
        SortByOrder([i \in 1..Len(universalNames) |->
                       FirstOccurrence(filteredVegetables, universalNames[i])])
  IN  [vegetables |->
         [v \in 1..Len(filteredVegetables) |->
            [filteredVegetables[v] EXCEPT !.assessments =
               SelectSeq(@, LAMBDA a : ~IsUniversal(filteredVegetables, a.name))]],
       universalQualifiers |-> universal]

(***************************************************************************)
(* The store.  A table is the sequence of its documents in creation order; *)
(* db is the record of the tables a mutation reads and writes, with the id *)
(* allocator.  A mutation is a function from db to db: Convex runs it as   *)
(* one transaction.                                                        *)
(***************************************************************************)
Db == [sheets |-> sheets, crops |-> crops, qualifiers |-> qualifiers,
       universalQualifiers |-> universalQualifiers, nextId |-> nextId]

\* .first() of a query: the least of the matching positions, 0 if none
First(hits) ==
  IF hits = {} THEN 0 ELSE CHOOSE i \in hits : \A j \in hits : i <= j

\* Index by_spreadsheet_and_range of the table sheets
SheetIndex(table, spreadsheetId, range) ==
  First({i \in 1..Len(table) :
           table[i].spreadsheetId = spreadsheetId /\ table[i].range = range})

\* Position of the document with this id, 0 if none
IdIndex(table, id) == First({i \in 1..Len(table) : table[i]._id = id})

RangeSuffix == <<"!", "A", ":", "Z", "Z">>

RangeOf(sheetName) == sheetName \o RangeSuffix

\* The inserted crops: one document per parsed record, with fresh ids
InsertCrops(table, parsedData, firstId) ==
  table \o [i \in 1..Len(parsedData) |->
              parsedData[i] @@ [_id |-> firstId + i - 1]]

\* Mutant: the new records are inserted without clearing the field first
ReplaceCropsKeepsOld(table, parsedData, firstId) ==
  IF parsedData # None /\ Len(parsedData[1]) > 0
  THEN InsertCrops(table, parsedData[1], firstId)
  ELSE table

\* Mutant: the clearing selects by the bed of the first record, not the field
ReplaceCropsByBed(table, parsedData, firstId) ==
  IF parsedData # None /\ Len(parsedData[1]) > 0
  THEN InsertCrops(SelectSeq(table, LAMBDA c : c.bed # parsedData[1][1].bed),
                   parsedData[1], firstId)
  ELSE table

\* The crops table after the clearing and re-insertion of syncSheetData
ReplaceCrops(table, parsedData, firstId) ==
  IF parsedData # None /\ Len(parsedData[1]) > 0
  THEN InsertCrops(SelectSeq(table, LAMBDA c : c.field # parsedData[1][1].field),
                   parsedData[1], firstId)
  ELSE table

\* Mutant: the snapshot is looked up by range alone, whatever the spreadsheet
UpsertSheetByRange(table, spreadsheetId, range, data, parsedData, id) ==
  LET existing == First({i \in 1..Len(table) : table[i].range = range})
  IN  IF existing # 0
      THEN [table EXCEPT ![existing] =
              [@ EXCEPT !.data = data, !.parsedData = parsedData]]
      ELSE Append(table, [_id |-> id, spreadsheetId |-> spreadsheetId,
                          range |-> range, data |-> data,
                          parsedData |-> parsedData])

\* Mutant: every sync inserts a snapshot
UpsertSheetAlwaysInserts(table, spreadsheetId, range, data, parsedData, id) ==
  Append(table, [_id |-> id, spreadsheetId |-> spreadsheetId,
                 range |-> range, data |-> data,
                 parsedData |-> parsedData])

\* The snapshot upsert of syncSheetData
UpsertSheet(table, spreadsheetId, range, data, parsedData, id) ==
  LET existing == SheetIndex(table, spreadsheetId, range)
  IN  IF existing # 0
      THEN [table EXCEPT ![existing] =
              [@ EXCEPT !.data = data, !.parsedData = parsedData]]
      ELSE Append(table, [_id |-> id, spreadsheetId |-> spreadsheetId,
                          range |-> range, data |-> data,
                          parsedData |-> parsedData])

syncSheetData(db, spreadsheetId, range, data, parsedData) ==
  LET existing == SheetIndex(db.sheets, spreadsheetId, range)
      afterSheet == IF existing # 0 THEN db.nextId ELSE db.nextId + 1
      inserted == IF parsedData # None THEN Len(parsedData[1]) ELSE 0
  IN  [db EXCEPT
         !.sheets = UpsertSheet(@, spreadsheetId, range, data, parsedData, db.nextId),
         !.crops = ReplaceCrops(@, parsedData, afterSheet),
         !.nextId = afterSheet + inserted]

\* Mutant: the snapshot is deleted and the crops of the field stay
deleteSheetByFieldKeepsCrops(db, spreadsheetId, fieldName) ==
  [db EXCEPT
     !.sheets =
       LET existingSheet == SheetIndex(@, spreadsheetId, RangeOf(fieldName))
       IN  IF existingSheet # 0
           THEN SubSeq(@, 1, existingSheet - 1) \o SubSeq(@, existingSheet + 1, Len(@))
           ELSE @]

deleteSheetByField(db, spreadsheetId, fieldName) ==
  [db EXCEPT
     !.sheets =
       LET existingSheet == SheetIndex(@, spreadsheetId, RangeOf(fieldName))
       IN  IF existingSheet # 0
           THEN SubSeq(@, 1, existingSheet - 1) \o SubSeq(@, existingSheet + 1, Len(@))
           ELSE @,
     !.crops = SelectSeq(@, LAMBDA c : c.field # fieldName)]

\* Mutant: the lookup is by name alone
SameKeyByName(doc, qualifier) ==
  doc.name = qualifier.name

\* The index lookup of syncQualifiers: by name and location, an absent
\* location matching only documents without one
SameKey(doc, qualifier) ==
  doc.name = qualifier.name /\ doc.location = qualifier.location

\* One iteration of the loop of syncQualifiers
UpsertQualifier(db, qualifier) ==
  LET existing == First({i \in 1..Len(db.qualifiers) :
                           SameKey(db.qualifiers[i], qualifier)})
  IN  IF existing # 0
      THEN [db EXCEPT !.qualifiers[existing] =
              [@ EXCEPT !.assessments = qualifier.assessments]]
      ELSE [db EXCEPT
              !.qualifiers = Append(@, [_id |-> db.nextId,
                                        name |-> qualifier.name,
                                        location |-> qualifier.location,
                                        assessments |-> qualifier.assessments]),
              !.nextId = @ + 1]

RECURSIVE syncQualifiers(_, _)
syncQualifiers(db, qs) ==
  IF qs = <<>> THEN db
  ELSE syncQualifiers(UpsertQualifier(db, Head(qs)), Tail(qs))

\* existingMap.get(name): the last of the documents read at the start that
\* carries the name, 0 if none
ExistingByName(existing, name) ==
  LET hits == {i \in 1..Len(existing) : existing[i].name = name}
  IN  IF hits = {} THEN 0 ELSE CHOOSE i \in hits : \A j \in hits : i >= j

\* The upsert loop of syncUniversalQualifiers against the documents read at
\* the start of the mutation
RECURSIVE UpsertUniversal(_, _, _)
UpsertUniversal(db, existing, qs) ==
  IF qs = <<>> THEN db
  ELSE LET q == Head(qs)
           e == ExistingByName(existing, q.name)
           pos == IdIndex(db.universalQualifiers, existing[e]._id)
       IN  UpsertUniversal(
             IF e # 0
             THEN [db EXCEPT !.universalQualifiers[pos] =
                     [@ EXCEPT !.options = q.options, !.order = q.order]]
             ELSE [db EXCEPT
                     !.universalQualifiers =
                        Append(@, [_id |-> db.nextId, name |-> q.name,
                                   options |-> q.options, order |-> q.order]),
                     !.nextId = @ + 1],
             existing, Tail(qs))

\* Mutant: no document is deleted
DeleteUnseenKeepsAll(db, existing, qs) ==
  db

\* The deletion loop of syncUniversalQualifiers: the documents read at the
\* start whose name the input does not carry
DeleteUnseen(db, existing, qs) ==
  LET seen == {qs[i].name : i \in 1..Len(qs)}
      gone == {existing[i]._id : i \in {j \in 1..Len(existing) : existing[j].name \notin seen}}
  IN  [db EXCEPT !.universalQualifiers = SelectSeq(@, LAMBDA d : d._id \notin gone)]

syncUniversalQualifiers(db, qs) ==
  DeleteUnseen(UpsertUniversal(db, db.universalQualifiers, qs),
               db.universalQualifiers, qs)

\* The three mutations of the route for the Qualifiers sheet, one after the
\* other, none of them throwing
QualifiersSync(db, spreadsheetId, sheetName, data) ==
  LET parsed == parseQualifiersSheet(data)
  IN  syncSheetData(
        syncUniversalQualifiers(syncQualifiers(db, parsed.vegetables),
                                parsed.universalQualifiers),
        spreadsheetId, RangeOf(sheetName), data, None)

\* Queries
getCropsByField(field) == SelectSeq(crops, LAMBDA c : c.field = field)

(***************************************************************************)
(* Bounds and inputs of the model.                                         *)
(***************************************************************************)
MaxId == 5

F1 == <<"F", "1">>

F2 == <<"F", "2">>

FieldNames == {F1, F2}

QualifiersName == <<"Q", "u", "a", "l", "i", "f", "i", "e", "r", "s">>

SpreadsheetIds == {"s1", "s2"}

ConfiguredSpreadsheet == "s1"

SheetNameLists == {<<F1, F2>>, <<F2>>}

HeaderRow == <<<<"b">>, <<"c">>>>

RowTomato == <<<<"1">>, <<"T", ":", "R">>, <<"4">>, <<"2">>, <<"5">>, <<"n">>>>

RowKale == <<<<"2">>, <<"K">>>>

FieldGrids == {<<HeaderRow>>, <<HeaderRow, RowTomato>>, <<HeaderRow, RowTomato, RowKale>>}

\* Blocks A {p?: x} and B {q?: y}: no universal question
QGridTwoCrops ==
  << <<<<"A">>, <<"p", "?">>>>, <<<<>>, <<"-", " ", "x">>>>,
     <<<<"B">>, <<"q", "?">>>>, <<<<>>, <<"-", " ", "y">>>> >>

\* The single block A {q?: y}: q? is universal
QGridOneCrop ==
  << <<<<"A">>, <<"q", "?">>>>, <<<<>>, <<"-", " ", "y">>>> >>

\* Blocks A {p?: x, q?: y} and "A, H" {p?: x}: p? is universal, and the
\* name A occurs without and with a location
QGridLocation ==
  << <<<<"A">>, <<"p", "?">>, <<"q", "?">>>>, <<<<>>, <<"x">>, <<"y">>>>,
     <<<<"A", ",", " ", "H">>, <<"p", "?">>>>, <<<<>>, <<"x">>>> >>

QualifierGrids == {QGridTwoCrops, QGridOneCrop, QGridLocation}

\* The grids the sheets hold while the loop of the analytics page runs
RunFieldGrids == {<<HeaderRow>>, <<HeaderRow, RowTomato>>}

RunQualifierGrids == {QGridOneCrop}

(***************************************************************************)
(* Views of the store that ignore document ids and lastSynced.             *)
(***************************************************************************)
StripDoc(doc) == [k \in DOMAIN doc \ {"_id", "lastSynced"} |-> doc[k]]

Contents(table) == [i \in 1..Len(table) |-> StripDoc(table[i])]

\* The bag of a sequence: each element with its number of occurrences
BagOf(seq) ==
  [x \in {seq[i] : i \in 1..Len(seq)} |->
     Cardinality({i \in 1..Len(seq) : seq[i] = x})]

ViewOf(db) ==
  [sheets |-> BagOf(Contents(db.sheets)),
   crops |-> BagOf(Contents(db.crops)),
   qualifiers |-> BagOf(Contents(db.qualifiers)),
   universalQualifiers |-> BagOf(Contents(db.universalQualifiers))]

FieldView(field) == Contents(getCropsByField(field))

(***************************************************************************)
(* Initial state: an empty store, no request in flight, the loop idle.     *)
(***************************************************************************)
IdleRun == [status |-> "idle", allSheets |-> <<>>, i |-> 0,
            removedSheets |-> <<>>, config |-> None]

\* Mutant: the loop returns as complete whatever happened
EndRunAsComplete(status) == [IdleRun EXCEPT !.status = "complete",
                                            !.removedSheets = run.removedSheets]

\* The loop has returned: its locals are gone, the sheets it purged are kept
\* for the record
EndRun(status) == [IdleRun EXCEPT !.status = status,
                                  !.removedSheets = run.removedSheets]

\* No call of the observed client has been answered yet
NoReply == [op |-> "none"]

Init ==
  /\ sheets = <<>>
  /\ crops = <<>>
  /\ qualifiers = <<>>
  /\ universalQualifiers = <<>>
  /\ settings = None
  /\ nextId = 1
  /\ qreq = None
  /\ run = IdleRun
  /\ qualityLogs = <<>>
  /\ now = 0
  /\ reply = NoReply

\* The store after a mutation
Commit(db) ==
  /\ db.nextId <= MaxId + 1
  /\ sheets' = db.sheets
  /\ crops' = db.crops
  /\ qualifiers' = db.qualifiers
  /\ universalQualifiers' = db.universalQualifiers
  /\ nextId' = db.nextId

\* The literal the route compares the lower-cased sheet name with
QualifiersLower == <<"q", "u", "a", "l", "i", "f", "i", "e", "r", "s">>

isQualifiersSheet(sheetName) == ToLowerCase(sheetName) = QualifiersLower

(***************************************************************************)
(* Settings.                                                               *)
(***************************************************************************)
setSettings(spreadsheetId, sheetNames) ==
  /\ settings' =
       IF settings # None
       THEN Some([settings[1] EXCEPT !.spreadsheetId = spreadsheetId,
                                     !.sheetNames = sheetNames])
       ELSE Some([spreadsheetId |-> spreadsheetId, sheetNames |-> sheetNames])
  /\ UNCHANGED <<sheets, crops, qualifiers, universalQualifiers, nextId,
                 qreq, run, logVars>>

SetSettings == \E names \in SheetNameLists : setSettings(ConfiguredSpreadsheet, names)

(***************************************************************************)
(* POST /api/sheets/[id]/sync for a field sheet: fetch, parse, one         *)
(* syncSheetData mutation.                                                 *)
(***************************************************************************)
\* parseSheetData and parseQualifiersSheet over the sheets and grids of the
\* model, tabulated: the route parses the grid it fetched
ParsedField ==
  [sheetName \in FieldNames |->
     [data \in FieldGrids |-> parseSheetData(data, sheetName)]]

ParsedQualifiers == [data \in QualifierGrids |-> parseQualifiersSheet(data)]

FieldSync(spreadsheetId, sheetName, data) ==
  LET parsedData == ParsedField[sheetName][data]
      db == syncSheetData(Db, spreadsheetId, RangeOf(sheetName), data, Some(parsedData))
  IN  /\ ~isQualifiersSheet(sheetName)
      /\ Commit(db)

\* A client other than the loop (the onboarding page) syncs a field sheet
PostFieldSheet ==
  \E spreadsheetId \in SpreadsheetIds, sheetName \in FieldNames, data \in FieldGrids :
    /\ FieldSync(spreadsheetId, sheetName, data)
    /\ UNCHANGED <<settings, qreq, run, logVars>>

\* The loop of a dashboard page, whose config comes from the browser's local
\* storage, gets 404 SHEET_NOT_FOUND for a sheet and purges it
DashboardPurge ==
  \E spreadsheetId \in SpreadsheetIds, fieldName \in FieldNames :
    /\ Commit(deleteSheetByField(Db, spreadsheetId, fieldName))
    /\ UNCHANGED <<settings, qreq, run, logVars>>

(***************************************************************************)
(* POST /api/sheets/[id]/sync for the Qualifiers sheet: fetch, parse, and  *)
(* three mutations in a row, each of which may throw.                      *)
(***************************************************************************)
InFlight == qreq # None /\ qreq[1].pc \in {"syncedQualifiers", "syncedUniversal"}

QualifiersStart(owner, spreadsheetId, sheetName, data) ==
  LET parsed == ParsedQualifiers[data]
      db == syncQualifiers(Db, parsed.vegetables)
  IN  /\ ~InFlight
      /\ isQualifiersSheet(sheetName)
      /\ Commit(db)
      /\ qreq' = Some([owner |-> owner, spreadsheetId |-> spreadsheetId,
                       sheetName |-> sheetName, data |-> data,
                       universalQualifiers |-> parsed.universalQualifiers,
                       pc |-> "syncedQualifiers",
                       q0 |-> Contents(qualifiers),
                       u0 |-> Contents(universalQualifiers)])
      /\ UNCHANGED <<settings, logVars>>

\* A client other than the loop (the onboarding page) syncs the Qualifiers sheet
PostQualifiers ==
  \E data \in QualifierGrids :
    /\ QualifiersStart("client", ConfiguredSpreadsheet, QualifiersName, data)
    /\ UNCHANGED run

QualifiersUniversal ==
  /\ InFlight
  /\ qreq[1].pc = "syncedQualifiers"
  /\ Commit(syncUniversalQualifiers(Db, qreq[1].universalQualifiers))
  /\ qreq' = Some([qreq[1] EXCEPT !.pc = "syncedUniversal"])
  /\ UNCHANGED <<settings, run, logVars>>

QualifiersSnapshot ==
  /\ InFlight
  /\ qreq[1].pc = "syncedUniversal"
  /\ Commit(syncSheetData(Db, qreq[1].spreadsheetId, RangeOf(qreq[1].sheetName),
                          qreq[1].data, None))
  /\ qreq' = None
  /\ run' = IF qreq[1].owner = "run" THEN [run EXCEPT !.i = @ + 1] ELSE run
  /\ UNCHANGED <<settings, logVars>>

\* A mutation call of the route throws: the route answers 500 and the
\* mutations already committed stay
QualifiersFail ==
  /\ InFlight
  /\ qreq' = Some([qreq[1] EXCEPT !.pc = "failed"])
  /\ run' = IF qreq[1].owner = "run" THEN EndRun("error") ELSE run
  /\ UNCHANGED <<sheets, crops, qualifiers, universalQualifiers, settings, nextId, logVars>>

(***************************************************************************)
(* syncAllSheets of the analytics page.                                    *)
(***************************************************************************)
updateSettingsSheetNames(sheetNames) ==
  /\ settings # None
  /\ settings' = Some([settings[1] EXCEPT !.sheetNames = sheetNames])

StartRun ==
  /\ settings # None
  /\ run.status # "syncing"
  /\ run' = [status |-> "syncing",
             allSheets |-> <<QualifiersName>> \o
                SelectSeq(settings[1].sheetNames, LAMBDA n : ~isQualifiersSheet(n)),
             i |-> 0,
             removedSheets |-> <<>>,
             config |-> settings]
  /\ UNCHANGED <<sheets, crops, qualifiers, universalQualifiers, settings,
                 nextId, qreq, logVars>>

\* The loop is at a sheet and has no request of its own in flight
RunAtSheet ==
  /\ run.status = "syncing"
  /\ run.i < Len(run.allSheets)
  /\ ~(InFlight /\ qreq[1].owner = "run")

CurrentSheet == run.allSheets[run.i + 1]

RunQualifiers ==
  /\ RunAtSheet
  /\ \E data \in RunQualifierGrids :
       QualifiersStart("run", run.config[1].spreadsheetId, CurrentSheet, data)
  /\ UNCHANGED run

RunSyncField ==
  /\ RunAtSheet
  /\ \E data \in RunFieldGrids :
       FieldSync(run.config[1].spreadsheetId, CurrentSheet, data)
  /\ run' = [run EXCEPT !.i = @ + 1]
  /\ UNCHANGED <<settings, qreq, logVars>>

\* The route answers 404 SHEET_NOT_FOUND: the loop purges the sheet and goes on
RunSheetNotFound ==
  /\ RunAtSheet
  /\ Commit(deleteSheetByField(Db, run.config[1].spreadsheetId, CurrentSheet))
  /\ run' = [run EXCEPT !.removedSheets = Append(@, CurrentSheet), !.i = @ + 1]
  /\ UNCHANGED <<settings, qreq, logVars>>

\* The route answers another error before any mutation: the loop stops
RunSheetError ==
  /\ RunAtSheet
  /\ run' = EndRun("error")
  /\ UNCHANGED <<sheets, crops, qualifiers, universalQualifiers, settings,
                 nextId, qreq, logVars>>

RunFinish ==
  /\ run.status = "syncing"
  /\ run.i = Len(run.allSheets)
  /\ IF Len(run.removedSheets) > 0
     THEN updateSettingsSheetNames(
            SelectSeq(run.config[1].sheetNames,
                      LAMBDA n : \A k \in 1..Len(run.removedSheets) :
                                   run.removedSheets[k] # n))
     ELSE UNCHANGED settings
  /\ run' = EndRun("complete")
  /\ UNCHANGED <<sheets, crops, qualifiers, universalQualifiers,
                 nextId, qreq, logVars>>

(***************************************************************************)
(* POST /api/sheets/[id]/sync as the observed client calls it, with any    *)
(* caller and with inputs that may be missing.                             *)
(***************************************************************************)
Callers == {"anonymous", "user", "admin"}

\* The spreadsheet ids and sheet names of a request: "" is an empty id,
\* Undefined a body without sheetName, <<>> an empty sheetName
RequestIds == {ConfiguredSpreadsheet, ""}

RequestNames == {F1, Undefined, <<>>}

\* Mutant: the sheet name is not checked
PrecheckSkipsName(caller, spreadsheetId, sheetName) ==
  IF caller = "anonymous" THEN 401
  ELSE IF caller # "admin" THEN 403
  ELSE IF spreadsheetId = "" THEN 400
  ELSE 200

\* The checks of the route before it fetches the sheet: the status it
\* answers with, 200 when it goes on
Precheck(caller, spreadsheetId, sheetName) ==
  IF caller = "anonymous" THEN 401
  ELSE IF caller # "admin" THEN 403
  ELSE IF spreadsheetId = "" THEN 400
  ELSE IF ~Truthy(sheetName) THEN 400
  ELSE 200

\* One request of the observed client for a sheet that is not the
\* Qualifiers sheet, and the answer it gets
PostOf(caller, spreadsheetId, sheetName, data) ==
  LET status == Precheck(caller, spreadsheetId, sheetName)
  IN  /\ ~isQualifiersSheet(sheetName)
      /\ IF status = 200
         THEN Commit(syncSheetData(Db, spreadsheetId, RangeOf(sheetName), data,
                                   Some(parseSheetData(data, sheetName))))
         ELSE UNCHANGED <<sheets, crops, qualifiers, universalQualifiers, nextId>>
      /\ reply' = [op |-> "sync", caller |-> caller,
                   arg |-> <<spreadsheetId, sheetName>>, result |-> status]
      /\ UNCHANGED <<settings, qreq, run, qualityLogs, now>>

PostRequest ==
  \E caller \in Callers, spreadsheetId \in RequestIds, sheetName \in RequestNames,
     data \in RunFieldGrids :
    PostOf(caller, spreadsheetId, sheetName, data)

(***************************************************************************)
(* Quality logs.                                                           *)
(***************************************************************************)
MaxTime == 1

\* The answers a submission carries
ResponseLists ==
  {<<>>, <<[question |-> <<"q", "?">>, answer |-> <<"y">>]>>}

\* The arguments the log page passes for the crop the user selected
LogArgs(selectedCrop, responses) ==
  [cropId |-> selectedCrop._id,
   crop |-> selectedCrop.crop,
   variety |-> selectedCrop.variety,
   field |-> selectedCrop.field,
   bed |-> selectedCrop.bed,
   datePlanted |-> selectedCrop.date,
   trays |-> selectedCrop.trays,
   rows |-> selectedCrop.rows,
   plantingNotes |-> selectedCrop.notes,
   responses |-> responses,
   logNotes |-> Undefined]

\* The content of a log: what createQualityLog was called with
LogContent(log) == [k \in DOMAIN log \ {"_id", "assessmentDate", "createdAt"} |-> log[k]]

\* Mutant: a submission whose content a stored log already has adds nothing
createQualityLogOnce(table, args, id, time) ==
  IF \E i \in 1..Len(table) : LogContent(table[i]) = args
  THEN table
  ELSE Append(table, args @@ [_id |-> id, assessmentDate |-> time, createdAt |-> time])

\* The table qualityLogs after createQualityLog
createQualityLog(table, args, id, time) ==
  Append(table, args @@ [_id |-> id, assessmentDate |-> time, createdAt |-> time])

\* Mutant: the log stays, with its responses removed
deleteQualityLogAsTombstone(table, id) ==
  LET existing == IdIndex(table, id)
  IN  IF existing = 0
      THEN [result |-> "Quality log not found", table |-> table]
      ELSE [result |-> "success",
            table |-> [table EXCEPT ![existing] = [@ EXCEPT !.responses = <<>>]]]

\* Mutant: an id that refers to no log is accepted
deleteQualityLogQuiet(table, id) ==
  [result |-> "success", table |-> SelectSeq(table, LAMBDA l : l._id # id)]

\* deleteQualityLog: the outcome of the call and the table after it
deleteQualityLog(table, id) ==
  LET existing == IdIndex(table, id)
  IN  IF existing = 0
      THEN [result |-> "Quality log not found", table |-> table]
      ELSE [result |-> "success",
            table |-> SubSeq(table, 1, existing - 1) \o SubSeq(table, existing + 1, Len(table))]

\* A user submits the assessment of a stored crop
SubmitLogOf(selectedCrop, responses) ==
  /\ nextId <= MaxId
  /\ qualityLogs' = createQualityLog(qualityLogs, LogArgs(selectedCrop, responses),
                                     nextId, now)
  /\ nextId' = nextId + 1
  /\ reply' = [op |-> "createQualityLog", caller |-> "user",
               arg |-> LogArgs(selectedCrop, responses), result |-> nextId]
  /\ UNCHANGED <<sheets, crops, qualifiers, universalQualifiers, settings,
                 qreq, run, now>>

SubmitLog ==
  \E k \in 1..Len(crops), responses \in ResponseLists :
    SubmitLogOf(crops[k], responses)

\* The mutation deleteQualityLog, which does not look at its caller
DeleteLogOf(caller, id) ==
  LET outcome == deleteQualityLog(qualityLogs, id)
  IN  /\ qualityLogs' = outcome.table
      /\ reply' = [op |-> "deleteQualityLog", caller |-> caller,
                   arg |-> id, result |-> outcome.result]
      /\ UNCHANGED <<sheets, crops, qualifiers, universalQualifiers, settings,
                     nextId, qreq, run, now>>

\* The dashboard lets an admin, and nobody else, delete a log of its list,
\* which may have been deleted meanwhile
DashboardDeleteLog == \E id \in 1..MaxId : DeleteLogOf("admin", id)

\* A client that is not an admin calls the public mutation itself
ClientDeleteLog ==
  \E caller \in Callers \ {"admin"}, id \in 1..MaxId : DeleteLogOf(caller, id)

\* The public mutation clearDemoData, which does not look at its caller
clearDemoData(caller) ==
  /\ crops' = <<>>
  /\ qualifiers' = <<>>
  /\ universalQualifiers' = <<>>
  /\ qualityLogs' = <<>>
  /\ reply' = [op |-> "clearDemoData", caller |-> caller,
               arg |-> Undefined, result |-> "success"]
  /\ UNCHANGED <<sheets, settings, nextId, qreq, run, now>>

ClearDemoData == \E caller \in Callers : clearDemoData(caller)

\* The field sheet the logged crops come from is synced again, by a client
\* other than the observed one
ResyncLoggedField ==
  \E data \in RunFieldGrids :
    /\ FieldSync(ConfiguredSpreadsheet, F1, data)
    /\ UNCHANGED <<settings, qreq, run, logVars>>

\* The field sheet the logged crops come from is purged as not found
PurgeLoggedField ==
  /\ Commit(deleteSheetByField(Db, ConfiguredSpreadsheet, F1))
  /\ UNCHANGED <<settings, qreq, run, logVars>>

\* Time passes on the server
Tick ==
  /\ now < MaxTime
  /\ now' = now + 1
  /\ UNCHANGED <<sheets, crops, qualifiers, universalQualifiers, settings,
                 nextId, qreq, run, qualityLogs, reply>>

(***************************************************************************)
(* The Qualifiers parser on its own: the route hands it the grid of the    *)
(* sheet and gets the crop entries and the universal questions back.       *)
(***************************************************************************)
\* Header rows of a first block: the crop A with the questions p? and q?,
\* and q? behind an empty cell or behind a cell that is no question
ParserHeadersA ==
  { <<<<"A">>, <<"p", "?">>>>,
    <<<<"A">>, <<"p", "?">>, <<"q", "?">>>>,
    <<<<"A">>, <<>>, <<"q", "?">>>>,
    <<<<"A">>, <<"n">>, <<"q", "?">>>> }

\* Header rows of a second block: the crop B, also without any question
ParserHeadersB ==
  { <<<<"B">>, <<"p", "?">>>>,
    <<<<"B">>, <<"p", "?">>, <<"q", "?">>>>,
    <<<<"B">>, <<"q", "?">>>>,
    <<<<"B">>>> }

\* The option rows below a header: none, or one row with options in column
\* B, in columns B and C, or in column C alone
ParserOptionRows ==
  { <<>>,
    << <<<<>>, <<"-", " ", "x">>>> >>,
    << <<<<>>, <<"-", " ", "x">>, <<"-", " ", "y">>>> >>,
    << <<<<>>, <<>>, <<"-", " ", "y">>>> >> }

ParserBlocks(headers) ==
  {<<header>> \o rows : header \in headers, rows \in ParserOptionRows}

ParserGrids ==
  QualifierGrids
    \cup ParserBlocks(ParserHeadersA)
    \cup {a \o b : a \in ParserBlocks(ParserHeadersA), b \in ParserBlocks(ParserHeadersB)}

\* The crop entries the parser keeps before it looks for universal questions
SurvivingVegetables(data) ==
  SelectSeq(ParseBlocks(data, [vegetables |-> <<>>, names |-> <<>>,
                                assessments |-> <<>>]),
            LAMBDA v :
              /\ Len(v.assessments) > 0
              /\ \E i \in 1..Len(v.assessments) : Len(v.assessments[i].options) > 0)

\* The route parses the grid it fetched
ParseQualifiers ==
  /\ \E data \in ParserGrids :
       reply' = [op |-> "parseQualifiersSheet", caller |-> "admin",
                 arg |-> data, result |-> parseQualifiersSheet(data)]
  /\ UNCHANGED <<sheets, crops, qualifiers, universalQualifiers, settings,
                 nextId, qreq, run, qualityLogs, now>>

(***************************************************************************)
(* The tabular parser on its own: the route hands it the grid of a field   *)
(* sheet and the name of the sheet.                                        *)
(***************************************************************************)
\* Two crops with two tray tokens
RowTwoCrops == <<<<"2">>, <<"A", ":", "x", " ", "/", " ", "B">>, <<"1", " ", "/", " ", "2">>, <<"3">>, <<"6">>, <<"m">>>>

\* Two crops, one tray token, a row of three cells
RowTwoCropsOneTray == <<<<"2">>, <<"A", " ", "/", " ", "B">>, <<"7">>>>

\* Two crops, three tray tokens
RowTwoCropsThreeTrays == <<<<"2">>, <<"A", " ", "/", " ", "B">>, <<"1", " ", "/", " ", "2", " ", "/", " ", "3">>>>

\* Three crops, two tray tokens
RowThreeCropsTwoTrays == <<<<"2">>, <<"A", " ", "/", " ", "B", " ", "/", " ", "C">>, <<"1", " ", "/", " ", "2">>>>

\* Two sub-entries, the second without a crop name
RowCropless == <<<<"2">>, <<"A", " ", "/", " ", ":", "v">>, <<"1", " ", "/", " ", "2">>>>

\* Bed and crop cell empty
RowEmpty == <<<<>>, <<>>, <<"4">>>>

\* A row without cells
RowNoCells == <<>>

\* A bed without a crop cell
RowBedOnly == <<<<"3">>>>

\* A crop cell of whitespace
RowBlankCrop == <<<<"3">>, <<" ">>>>

\* A crop without a bed
RowCropOnly == <<<<>>, <<"K">>>>

\* A single crop whose note names the crop it replaced
RowReplaced == <<<<"4">>, <<"K">>, <<>>, <<>>, <<>>, <<"T", ":", "R", " ", "r", "e", "p", "l", "a", "c", "e", "d", " ", "w", "i", "t", "h", " ", "K">>>>

\* The trigger in upper case, no variety
RowReplacedUpper == <<<<"4">>, <<"K">>, <<>>, <<>>, <<>>, <<"T", " ", "R", "E", "P", "L", "A", "C", "E", "D", " ", "B", "Y", " ", "K">>>>

\* A note with the second trigger only
RowReplanted == <<<<"4">>, <<"K">>, <<>>, <<>>, <<>>, <<"r", "e", "p", "l", "a", "n", "t", "e", "d", " ", "w", "i", "t", "h", " ", "K">>>>

\* A note with both triggers
RowBothTriggers == <<<<"4">>, <<"K">>, <<>>, <<>>, <<>>, <<"T", " ", "r", "e", "p", "l", "a", "c", "e", "d", " ", "b", "y", " ", "K", " ", "r", "e", "p", "l", "a", "n", "t", "e", "d", " ", "w", "i", "t", "h", " ", "L">>>>

\* A trigger with no phrase before it
RowBareTrigger == <<<<"4">>, <<"K">>, <<>>, <<>>, <<>>, <<"r", "e", "p", "l", "a", "c", "e", "d", " ", "w", "i", "t", "h", " ", "K">>>>

\* Two crops with a replanting note
RowTwoCropsReplaced == <<<<"5">>, <<"A", " ", "/", " ", "B">>, <<"1">>, <<>>, <<>>, <<"T", " ", "r", "e", "p", "l", "a", "c", "e", "d", " ", "w", "i", "t", "h", " ", "K">>>>

HT == <<"H", "T">>

\* The sheet names the parser is called with: an open field, a high tunnel
TabularNames == {F1, HT}

\* Row 0 of a grid: a header, or a row that reads like a planting
TabularHeaders == {HeaderRow, RowKale}

TabularRows ==
  {RowTomato, RowTwoCrops, RowTwoCropsOneTray, RowTwoCropsThreeTrays,
   RowThreeCropsTwoTrays, RowCropless, RowEmpty,
   RowNoCells, RowBedOnly, RowBlankCrop,
   RowCropOnly, RowReplaced, RowReplacedUpper,
   RowReplanted, RowBothTriggers, RowBareTrigger,
   RowTwoCropsReplaced}

\* The rows below row 0: none, one, or one followed by one of three
TabularBodies ==
  {<<>>} \cup {<<r>> : r \in TabularRows}
         \cup {<<r, s>> : r \in TabularRows, s \in {RowTomato, RowEmpty, RowTwoCrops}}

TabularGrids == {<<header>> \o body : header \in TabularHeaders, body \in TabularBodies}

\* The route parses the grid it fetched for the sheet
ParseField ==
  /\ \E data \in TabularGrids, sheetName \in TabularNames :
       reply' = [op |-> "parseSheetData", caller |-> "admin",
                 arg |-> <<data, sheetName>>,
                 result |-> parseSheetData(data, sheetName)]
  /\ UNCHANGED <<sheets, crops, qualifiers, universalQualifiers, settings,
                 nextId, qreq, run, qualityLogs, now>>

(***************************************************************************)
(* The analytics of the quality logs: the planning classification.         *)
(***************************************************************************)
\* replace(/\s+/g, " "): every run of whitespace becomes one blank
RECURSIVE CollapseSpaces(_)
CollapseSpaces(s) ==
  IF s = <<>> THEN <<>>
  ELSE IF IsSpace(Head(s))
  THEN <<" ">> \o CollapseSpaces(SubSeq(s, SkipSpaces(s, 1), Len(s)))
  ELSE <<Head(s)>> \o CollapseSpaces(Tail(s))

normalizeLabel(value) == CollapseSpaces(ToLowerCase(Trim(value)))

PlanningPhrases ==
  {<<"p", "l", "a", "n", "t", "i", "n", "g", " ", "q", "u", "a", "n", "t", "i", "t", "y">>,
   <<"q", "u", "a", "n", "t", "i", "t", "y", " ", "p", "l", "a", "n", "t", "e", "d">>,
   <<"q", "u", "a", "n", "t", "i", "t", "y", "?">>,
   <<"p", "l", "a", "n", "t", "e", "d", " ", "t", "o", "o">>}

isPlanningQuestion(question) ==
  LET q == normalizeLabel(question)
  IN  \E phrase \in PlanningPhrases : Includes(q, phrase)

UnderKeywords ==
  {<<"n", "o", "t", " ", "e", "n", "o", "u", "g", "h">>,
   <<"t", "o", "o", " ", "l", "i", "t", "t", "l", "e">>,
   <<"u", "n", "d", "e", "r">>}

OverKeywords ==
  {<<"t", "o", "o", " ", "m", "u", "c", "h">>,
   <<"t", "o", "o", " ", "m", "a", "n", "y">>,
   <<"o", "v", "e", "r">>,
   <<"e", "x", "c", "e", "s", "s">>}

OnTargetKeywords ==
  {<<"j", "u", "s", "t", " ", "r", "i", "g", "h", "t">>,
   <<"p", "e", "r", "f", "e", "c", "t">>,
   <<"i", "d", "e", "a", "l">>,
   <<"r", "i", "g", "h", "t", " ", "a", "m", "o", "u", "n", "t">>}

getPlanningBucketOverFirst(answer) ==
  LET normalized == normalizeLabel(answer)
  IN  IF \E k \in OverKeywords : Includes(normalized, k) THEN "over"
      ELSE IF \E k \in UnderKeywords : Includes(normalized, k) THEN "under"
      ELSE IF \E k \in OnTargetKeywords : Includes(normalized, k) THEN "on_target"
      ELSE "unknown"

getPlanningBucket(answer) ==
  LET normalized == normalizeLabel(answer)
  IN  IF \E k \in UnderKeywords : Includes(normalized, k) THEN "under"
      ELSE IF \E k \in OverKeywords : Includes(normalized, k) THEN "over"
      ELSE IF \E k \in OnTargetKeywords : Includes(normalized, k) THEN "on_target"
      ELSE "unknown"

\* An answer without any keyword
Green == <<"g", "r", "e", "e", "n">>

\* The answers that are classified: a keyword or Green alone, two of them
\* behind each other, and answers in another letter case and with other
\* whitespace
AnswerWords == UnderKeywords \cup OverKeywords \cup OnTargetKeywords \cup {Green}

AnswerTexts ==
  AnswerWords
    \cup {a \o <<",", " ">> \o b : a \in AnswerWords, b \in AnswerWords}
    \cup {<<"T", "o", "o", " ", " ", "M", "u", "c", "h">>,
          <<" ", "J", "U", "S", "T", " ", "R", "I", "G", "H", "T", " ">>,
          <<"N", "o", "t", "\t", "E", "n", "o", "u", "g", "h">>,
          <<>>}

\* The aggregation classifies the answer of a planning question
ClassifyAnswer ==
  /\ \E answer \in AnswerTexts :
       reply' = [op |-> "getPlanningBucket", caller |-> "user",
                 arg |-> answer, result |-> getPlanningBucket(answer)]
  /\ UNCHANGED <<sheets, crops, qualifiers, universalQualifiers, settings,
                 nextId, qreq, run, qualityLogs, now>>

(***************************************************************************)
(* The analytics of the quality logs: time.  A timestamp is a whole number *)
(* of hours since 1970-01-01T00:00Z; a Date at midnight is the number of   *)
(* its day.                                                                *)
(***************************************************************************)
HoursPerDay == 24

\* The day a timestamp lies in
DayOf(timestamp) == timestamp \div HoursPerDay

\* Date.prototype.getUTCDay: 0 is Sunday; day 0 was a Thursday
getUTCDay(day) == (day + 4) % 7

\* Mutant: a Sunday is moved forward to the next day
startOfWeekUtcFromSunday(timestamp) ==
  LET day == getUTCDay(DayOf(timestamp))
      diffToMonday == 1 - day
  IN  DayOf(timestamp) + diffToMonday

\* The day of the Monday of the week of the timestamp
startOfWeekUtc(timestamp) ==
  LET day == getUTCDay(DayOf(timestamp))
      diffToMonday == IF day = 0 THEN -6 ELSE 1 - day
  IN  DayOf(timestamp) + diffToMonday

\* getUTCFullYear, getUTCMonth() + 1 and getUTCDate of a day: the proleptic
\* Gregorian calendar, in years of 365 or 366 days counted from March
CivilFromDays(day) ==
  LET z == day + 719468
      era == z \div 146097
      doe == z - era * 146097
      yoe == (doe - doe \div 1460 + doe \div 36524 - doe \div 146096) \div 365
      doy == doe - (365 * yoe + yoe \div 4 - yoe \div 100)
      mp == (5 * doy + 2) \div 153
      d == doy - (153 * mp + 2) \div 5 + 1
      m == IF mp < 10 THEN mp + 3 ELSE mp - 9
      y == yoe + era * 400 + (IF m <= 2 THEN 1 ELSE 0)
  IN  [y |-> y, m |-> m, d |-> d]

\* The day of a date of the calendar
DaysFromCivil(y, m, d) ==
  LET yy == IF m <= 2 THEN y - 1 ELSE y
      era == yy \div 400
      yoe == yy - era * 400
      doy == (153 * (IF m > 2 THEN m - 3 ELSE m + 9) + 2) \div 5 + d - 1
      doe == yoe * 365 + yoe \div 4 - yoe \div 100 + doy
  IN  era * 146097 + doe - 719468

DigitChars == <<"0", "1", "2", "3", "4", "5", "6", "7", "8", "9">>

\* String(n) of a natural number
RECURSIVE NatToString(_)
NatToString(n) ==
  IF n < 10 THEN <<DigitChars[n + 1]>>
  ELSE NatToString(n \div 10) \o <<DigitChars[(n % 10) + 1]>>

\* String.prototype.padStart(width, "0")
RECURSIVE PadStart(_, _)
PadStart(s, width) == IF Len(s) >= width THEN s ELSE PadStart(<<"0">> \o s, width)

\* `${y}-${m}-${d}` of the day of a Date
dateKey(date) ==
  LET c == CivilFromDays(date)
  IN  NatToString(c.y) \o <<"-">> \o PadStart(NatToString(c.m), 2)
        \o <<"-">> \o PadStart(NatToString(c.d), 2)

\* The number a string of digits reads as
RECURSIVE StringToNat(_)
StringToNat(s) ==
  IF s = <<>> THEN 0
  ELSE 10 * StringToNat(SubSeq(s, 1, Len(s) - 1))
       + (CHOOSE n \in 0..9 : DigitChars[n + 1] = s[Len(s)])

\* The day a date string "YYYY-MM-DD" names
DayOfDateString(dateString) ==
  DaysFromCivil(StringToNat(SubSeq(dateString, 1, 4)),
                StringToNat(SubSeq(dateString, 6, 7)),
                StringToNat(SubSeq(dateString, 9, 10)))

\* new Date(`${dateString}T00:00:00.000Z`).getTime()
getStartTimestampFromDate(dateString) == DayOfDateString(dateString) * HoursPerDay

\* new Date(`${dateString}T23:59:59.999Z`).getTime(): a whole hour is later
\* than it exactly when it is later than the last whole hour of the day
getEndTimestampFromDate(dateString) ==
  DayOfDateString(dateString) * HoursPerDay + (HoursPerDay - 1)

(***************************************************************************)
(* The analytics of the quality logs: numbers.  A rate is an IEEE 754      *)
(* double: sign * bits * 2^exp with 53 bits, the first of them 1, and the  *)
(* result of every division, product and difference is rounded to the      *)
(* nearest double, to the even one of two that are equally near.           *)
(***************************************************************************)
MantissaBits == 53

\* Bits of the quotient that a division works out behind the binary point
QuotientBits == 64

DoubleZero == [sign |-> 1, bits |-> <<>>, exp |-> 0]

Zeros(n) == [i \in 1..n |-> 0]

RECURSIVE StripZeros(_)
StripZeros(bs) ==
  IF bs # <<>> /\ Head(bs) = 0 THEN StripZeros(Tail(bs)) ELSE bs

PadLeft(bs, n) == Zeros(n - Len(bs)) \o bs

\* The bits of a natural number, none for 0
RECURSIVE IntBits(_)
IntBits(n) == IF n = 0 THEN <<>> ELSE IntBits(n \div 2) \o <<n % 2>>

\* The natural number a short bit string reads as
RECURSIVE BitsValue(_)
BitsValue(bs) ==
  IF bs = <<>> THEN 0 ELSE 2 * BitsValue(SubSeq(bs, 1, Len(bs) - 1)) + bs[Len(bs)]

\* Long bit strings are worked on in pieces of so many bits, from the right
LimbBits == 14

LowLimb(bs) ==
  SubSeq(bs, (IF Len(bs) > LimbBits THEN Len(bs) - LimbBits ELSE 0) + 1, Len(bs))

HighLimbs(bs) == SubSeq(bs, 1, Len(bs) - Len(LowLimb(bs)))

\* a + b + carry of two bit strings of one length
RECURSIVE AddLimbs(_, _, _)
AddLimbs(a, b, carry) ==
  IF a = <<>> THEN IntBits(carry)
  ELSE LET w == Len(LowLimb(a))
           v == BitsValue(LowLimb(a)) + BitsValue(LowLimb(b)) + carry
       IN  AddLimbs(HighLimbs(a), HighLimbs(b), v \div 2^w)
             \o PadLeft(IntBits(v % 2^w), w)

AddBits(a, b) ==
  LET n == IF Len(a) > Len(b) THEN Len(a) ELSE Len(b)
  IN  AddLimbs(PadLeft(a, n), PadLeft(b, n), 0)

\* a - b - borrow of two bit strings of one length, a >= b + borrow
RECURSIVE SubLimbs(_, _, _)
SubLimbs(a, b, borrow) ==
  IF a = <<>> THEN <<>>
  ELSE LET w == Len(LowLimb(a))
           v == BitsValue(LowLimb(a)) - BitsValue(LowLimb(b)) - borrow
       IN  SubLimbs(HighLimbs(a), HighLimbs(b), IF v < 0 THEN 1 ELSE 0)
             \o PadLeft(IntBits(v % 2^w), w)

SubBits(a, b) == SubLimbs(a, b, 0)

\* bits * k + carry for a small natural number k
RECURSIVE MulLimbs(_, _, _)
MulLimbs(bits, k, carry) ==
  IF bits = <<>> THEN IntBits(carry)
  ELSE LET w == Len(LowLimb(bits))
           v == BitsValue(LowLimb(bits)) * k + carry
       IN  MulLimbs(HighLimbs(bits), k, v \div 2^w) \o PadLeft(IntBits(v % 2^w), w)

MulSmall(bits, k) == MulLimbs(bits, k, 0)

\* a < b for two bit strings of one length
LessBits(a, b) ==
  \E i \in 1..Len(a) : a[i] < b[i] /\ \A j \in 1..(i - 1) : a[j] = b[j]

\* The double nearest to sign * bs * 2^exp (+ a rest below the last bit when
\* sticky holds)
RoundToDouble(sign, bs, exp, sticky) ==
  LET b == StripZeros(bs)
      n == Len(b)
  IN  IF n = 0 THEN DoubleZero
      ELSE IF n <= MantissaBits
      THEN [sign |-> sign, bits |-> b \o Zeros(MantissaBits - n),
            exp |-> exp - (MantissaBits - n)]
      ELSE LET keep == SubSeq(b, 1, MantissaBits)
               guard == b[MantissaBits + 1]
               rest == sticky \/ \E i \in (MantissaBits + 2)..n : b[i] = 1
               up == guard = 1 /\ (rest \/ keep[MantissaBits] = 1)
               raised == AddBits(keep, <<1>>)
               e == exp + (n - MantissaBits)
           IN  IF ~up THEN [sign |-> sign, bits |-> keep, exp |-> e]
               ELSE IF Len(raised) > MantissaBits
               THEN [sign |-> sign, bits |-> SubSeq(raised, 1, MantissaBits),
                     exp |-> e + 1]
               ELSE [sign |-> sign, bits |-> raised, exp |-> e]

\* k more bits of rem / den behind the binary point after the bits acc, and
\* what is left
RECURSIVE FracBits(_, _, _, _)
FracBits(rem, den, k, acc) ==
  IF k = 0 THEN [bits |-> acc, rem |-> rem]
  ELSE FracBits((2 * rem) % den, den, k - 1, Append(acc, (2 * rem) \div den))

\* num / den of two integers, den > 0
DoubleDivide(num, den) ==
  LET a == IF num < 0 THEN -num ELSE num
      frac == FracBits(a % den, den, QuotientBits, <<>>)
  IN  RoundToDouble(IF num < 0 THEN -1 ELSE 1,
                    IntBits(a \div den) \o frac.bits, -QuotientBits, frac.rem # 0)

\* x * k of a double and a small natural number
DoubleTimes(x, k) == RoundToDouble(x.sign, MulSmall(x.bits, k), x.exp, FALSE)

\* x - y of two doubles that are not negative
DoubleMinus(x, y) ==
  IF y.bits = <<>> THEN x
  ELSE IF x.bits = <<>> THEN [y EXCEPT !.sign = -1]
  ELSE LET e == IF x.exp < y.exp THEN x.exp ELSE y.exp
           a == x.bits \o Zeros(x.exp - e)
           b == y.bits \o Zeros(y.exp - e)
           n == IF Len(a) > Len(b) THEN Len(a) ELSE Len(b)
           aa == PadLeft(a, n)
           bb == PadLeft(b, n)
       IN  IF LessBits(aa, bb)
           THEN RoundToDouble(-1, SubBits(bb, aa), e, FALSE)
           ELSE RoundToDouble(1, SubBits(aa, bb), e, FALSE)

(***************************************************************************)
(* The analytics of the quality logs: getAnalyticsOverview.  A Map is the  *)
(* sequence of its entries in the order of their insertion.                *)
(***************************************************************************)
\* The characters of the model in the order of their UTF-16 code units
CodeUnits ==
  <<"\t", "\n", "\r", " ", ",", "-", "/">> \o DigitChars \o <<":", "?">>
    \o UpperLetters \o LowerLetters

CodeUnitOf(c) == CHOOSE i \in 1..Len(CodeUnits) : CodeUnits[i] = c

\* a < b by code units, which is how the default sort compares strings and
\* how localeCompare orders the date keys
LessString(a, b) ==
  \/ Len(a) < Len(b) /\ SubSeq(b, 1, Len(a)) = a
  \/ \E i \in 1..Len(a) :
       /\ i <= Len(b)
       /\ SubSeq(a, 1, i - 1) = SubSeq(b, 1, i - 1)
       /\ CodeUnitOf(a[i]) < CodeUnitOf(b[i])

\* Array.prototype.sort of distinct strings
SortStrings(keys) ==
  [p \in 1..Len(keys) |->
     keys[CHOOSE i \in 1..Len(keys) :
            Cardinality({j \in 1..Len(keys) : LessString(keys[j], keys[i])}) = p - 1]]

\* sort(([a], [b]) => a.localeCompare(b)) of the entries of a Map
SortByKey(rows, field) ==
  [p \in 1..Len(rows) |->
     rows[CHOOSE i \in 1..Len(rows) :
            Cardinality({j \in 1..Len(rows) :
                           LessString(rows[j][field], rows[i][field])}) = p - 1]]

\* sort((a, b) => b[field] - a[field]): the larger first, equal ones in the
\* order they had
SortDescBy(rows, field) ==
  [p \in 1..Len(rows) |->
     rows[CHOOSE i \in 1..Len(rows) :
            Cardinality({j \in 1..Len(rows) :
                           \/ rows[j][field] > rows[i][field]
                           \/ rows[j][field] = rows[i][field] /\ j < i}) = p - 1]]

\* How often a key occurs
CountOf(keys, key) == Cardinality({i \in 1..Len(keys) : keys[i] = key})

\* The logs the filter of the query keeps
FilterLogs(allLogs, args) ==
  SelectSeq(allLogs, LAMBDA log :
    /\ ~(Truthy(args.crop) /\ log.crop # args.crop)
    /\ ~(Truthy(args.field) /\ log.field # args.field)
    /\ ~(Truthy(args.startDate)
           /\ log.assessmentDate < getStartTimestampFromDate(args.startDate))
    /\ ~(Truthy(args.endDate)
           /\ log.assessmentDate > getEndTimestampFromDate(args.endDate)))

weekKey(log) == dateKey(startOfWeekUtc(log.assessmentDate))

\* Mutant: a later planning answer replaces an earlier one
RECURSIVE PlanningBucketLast(_, _)
PlanningBucketLast(responses, planningBucket) ==
  IF responses = <<>> THEN planningBucket
  ELSE PlanningBucketLast(Tail(responses),
         IF isPlanningQuestion(Head(responses).question)
         THEN Some(getPlanningBucket(Head(responses).answer))
         ELSE planningBucket)

\* planningBucket after the loop over the responses of a log: None is null
RECURSIVE PlanningBucket(_, _)
PlanningBucket(responses, planningBucket) ==
  IF responses = <<>> THEN planningBucket
  ELSE PlanningBucket(Tail(responses),
         IF planningBucket = None /\ isPlanningQuestion(Head(responses).question)
         THEN Some(getPlanningBucket(Head(responses).answer))
         ELSE planningBucket)

\* The responses of the logs, one after the other
RECURSIVE AllResponses(_)
AllResponses(logs) ==
  IF logs = <<>> THEN <<>> ELSE Head(logs).responses \o AllResponses(Tail(logs))

\* byCrop, byField and logsByWeek: the entries of a Map that counts keys
CountEntries(keys) ==
  LET distinct == Distinct(keys, {})
  IN  [i \in 1..Len(distinct) |->
         [name |-> distinct[i], value |-> CountOf(keys, distinct[i])]]

\* questionStats as responseByQuestion lists it
ResponseByQuestion(logs) ==
  LET responses == AllResponses(logs)
      questions == Distinct([i \in 1..Len(responses) |-> responses[i].question], {})
      answersTo(question) ==
        LET given == SelectSeq(responses, LAMBDA r : r.question = question)
            answers == [i \in 1..Len(given) |-> given[i].answer]
            distinct == Distinct(answers, {})
        IN  [i \in 1..Len(distinct) |->
               [answer |-> distinct[i], count |-> CountOf(answers, distinct[i])]]
  IN  SortDescBy([i \in 1..Len(questions) |->
                    [question |-> questions[i],
                     total |-> CountOf([j \in 1..Len(responses) |-> responses[j].question],
                                       questions[i]),
                     answers |-> SortDescBy(answersTo(questions[i]), "count")]],
                 "total")

\* The planning data points: the key and the bucket of every log that has a
\* bucket
PlanningPoints(buckets, keys) ==
  LET kept == SelectSeq([i \in 1..Len(buckets) |-> i], LAMBDA i : buckets[i] # None)
  IN  [k \in 1..Len(kept) |-> [key |-> keys[kept[k]], bucket |-> buckets[kept[k]][1]]]

BucketCount(points, bucket) ==
  Cardinality({i \in 1..Len(points) : points[i].bucket = bucket})

\* Mutant: a data point in the bucket unknown is left out of the rows
PlanningStatsOfKnown(points) ==
  LET known == SelectSeq(points, LAMBDA p : p.bucket # "unknown")
      keys == Distinct([i \in 1..Len(known) |-> known[i].key], {})
  IN  [k \in 1..Len(keys) |->
         LET own == SelectSeq(known, LAMBDA p : p.key = keys[k])
         IN  [key |-> keys[k],
              total |-> Len(own),
              under |-> BucketCount(own, "under"),
              onTarget |-> BucketCount(own, "on_target"),
              over |-> BucketCount(own, "over"),
              unknown |-> 0]]

\* planningByCrop, planningByField and planningByWeek: the entries of a Map
\* of counters
PlanningStats(points) ==
  LET keys == Distinct([i \in 1..Len(points) |-> points[i].key], {})
  IN  [k \in 1..Len(keys) |->
         LET own == SelectSeq(points, LAMBDA p : p.key = keys[k])
         IN  [key |-> keys[k],
              total |-> Len(own),
              under |-> BucketCount(own, "under"),
              onTarget |-> BucketCount(own, "on_target"),
              over |-> BucketCount(own, "over"),
              unknown |-> Len(own) - BucketCount(own, "under")
                            - BucketCount(own, "on_target") - BucketCount(own, "over")]]

\* (count / total) * 100
Rate(count, total) == DoubleTimes(DoubleDivide(count, total), 100)

\* A row of planningByCropChart and planningByFieldChart, whose key is named
\* crop or field
PlanningRow(stats, label) ==
  LET total == IF stats.total = 0 THEN 1 ELSE stats.total
      underRate == Rate(stats.under, total)
      onTargetRate == Rate(stats.onTarget, total)
      overRate == Rate(stats.over, total)
  IN  (label :> stats.key)
        @@ [total |-> stats.total, under |-> stats.under,
            onTarget |-> stats.onTarget, over |-> stats.over,
            unknown |-> stats.unknown,
            underRate |-> underRate, onTargetRate |-> onTargetRate,
            overRate |-> overRate, balance |-> DoubleMinus(underRate, overRate)]

\* A row of planningTrend
TrendRow(stats) ==
  LET total == IF stats.total = 0 THEN 1 ELSE stats.total
      underRate == Rate(stats.under, total)
      overRate == Rate(stats.over, total)
  IN  [weekStart |-> stats.key, total |-> stats.total, under |-> stats.under,
       onTarget |-> stats.onTarget, over |-> stats.over, unknown |-> stats.unknown,
       underRate |-> underRate, overRate |-> overRate,
       balance |-> DoubleMinus(underRate, overRate)]

\* The result of the query getAnalyticsOverview
getAnalyticsOverview(allLogs, allCrops, args) ==
  LET logs == FilterLogs(allLogs, args)
      n == Len(logs)
      cropOf == [i \in 1..n |-> logs[i].crop]
      fieldOf == [i \in 1..n |-> logs[i].field]
      weekOf == [i \in 1..n |-> weekKey(logs[i])]
      weeks == SortByKey(CountEntries(weekOf), "name")
      buckets == [i \in 1..n |-> PlanningBucket(logs[i].responses, None)]
      points == PlanningPoints(buckets, cropOf)
      planningSampleSize == Len(points)
      underCount == BucketCount(points, "under")
      onTargetCount == BucketCount(points, "on_target")
      overCount == BucketCount(points, "over")
      unknownCount == BucketCount(points, "unknown")
      byCropStats == PlanningStats(points)
      byFieldStats == PlanningStats(PlanningPoints(buckets, fieldOf))
      byWeekStats == SortByKey(PlanningStats(PlanningPoints(buckets, weekOf)), "key")
  IN  [filters |->
         [cropOptions |->
            SortStrings(Distinct([i \in 1..Len(allLogs) |-> allLogs[i].crop], {})),
          fieldOptions |->
            SortStrings(Distinct([i \in 1..Len(allLogs) |-> allLogs[i].field], {}))],
       totals |->
         [totalLogs |-> n,
          totalCrops |-> Len(allCrops),
          uniqueCrops |-> Cardinality({allCrops[i].crop : i \in 1..Len(allCrops)}),
          uniqueFields |-> Cardinality({allCrops[i].field : i \in 1..Len(allCrops)})],
       logsByWeek |->
         [i \in 1..Len(weeks) |->
            [weekStart |-> weeks[i].name, logsCount |-> weeks[i].value]],
       byCrop |-> SortDescBy(CountEntries(cropOf), "value"),
       byField |-> SortDescBy(CountEntries(fieldOf), "value"),
       responseByQuestion |-> ResponseByQuestion(logs),
       planning |->
         [sampleSize |-> planningSampleSize,
          underCount |-> underCount,
          onTargetCount |-> onTargetCount,
          overCount |-> overCount,
          unknownCount |-> unknownCount,
          underRate |-> IF planningSampleSize > 0
                        THEN Rate(underCount, planningSampleSize) ELSE DoubleZero,
          onTargetRate |-> IF planningSampleSize > 0
                           THEN Rate(onTargetCount, planningSampleSize) ELSE DoubleZero,
          overRate |-> IF planningSampleSize > 0
                       THEN Rate(overCount, planningSampleSize) ELSE DoubleZero,
          balance |-> IF planningSampleSize > 0
                      THEN Rate(underCount - overCount, planningSampleSize)
                      ELSE DoubleZero,
          byCrop |-> SortDescBy([i \in 1..Len(byCropStats) |->
                                   PlanningRow(byCropStats[i], "crop")], "total"),
          byField |-> SortDescBy([i \in 1..Len(byFieldStats) |->
                                    PlanningRow(byFieldStats[i], "field")], "total"),
          trend |-> [i \in 1..Len(byWeekStats) |-> TrendRow(byWeekStats[i])]]]


(***************************************************************************)
(* The stores and the queries of the analytics: logs of three stored crops *)
(* with the answers the demo data and the classification tell apart, taken *)
(* around Sunday 2025-06-15, and the filters of the analytics page.        *)
(***************************************************************************)
\* The most logs of a store
MaxLogs == 6

\* The store after the syncs of two field sheets: two crops of F1 and one
\* of F2
AnalyticsDb ==
  syncSheetData(
    syncSheetData([sheets |-> <<>>, crops |-> <<>>, qualifiers |-> <<>>,
                   universalQualifiers |-> <<>>, nextId |-> 1],
                  ConfiguredSpreadsheet, RangeOf(F1), <<HeaderRow, RowTomato, RowKale>>,
                  Some(parseSheetData(<<HeaderRow, RowTomato, RowKale>>, F1))),
    ConfiguredSpreadsheet, RangeOf(F2), <<HeaderRow, RowTomato>>,
    Some(parseSheetData(<<HeaderRow, RowTomato>>, F2)))

AnalyticsCrops == AnalyticsDb.crops

PlantingQuantity == <<"P", "l", "a", "n", "t", "i", "n", "g", " ", "q", "u", "a", "n", "t", "i", "t", "y", "?">>

QuantityPlanted == <<"Q", "u", "a", "n", "t", "i", "t", "y", " ", "p", "l", "a", "n", "t", "e", "d">>

TooLittle == <<"T", "o", "o", " ", "l", "i", "t", "t", "l", "e">>

TooMuch == <<"T", "o", "o", " ", "m", "u", "c", "h">>

JustRight == <<"J", "u", "s", "t", " ", "r", "i", "g", "h", "t">>

OnTarget == <<"O", "n", " ", "t", "a", "r", "g", "e", "t">>

Answered(question, answer) == [question |-> question, answer |-> answer]

\* The text of an answer on a log: "none" is a log without planning question
AnswersOf(kind) ==
  IF kind = "under" THEN <<Answered(<<"q", "?">>, <<"y">>), Answered(PlantingQuantity, TooLittle)>>
  ELSE IF kind = "over" THEN <<Answered(PlantingQuantity, TooMuch)>>
  ELSE IF kind = "on_target" THEN <<Answered(PlantingQuantity, JustRight)>>
  ELSE IF kind = "unknown_then_over"
  THEN <<Answered(PlantingQuantity, OnTarget), Answered(QuantityPlanted, TooMuch)>>
  ELSE IF kind = "under_then_over"
  THEN <<Answered(PlantingQuantity, TooLittle), Answered(QuantityPlanted, TooMuch)>>
  ELSE IF kind = "none" THEN <<Answered(<<"q", "?">>, <<"y">>)>>
  ELSE <<>>

\* Hours of Saturday 2025-06-14, Sunday 2025-06-15 (10:00, as the demo
\* data), Monday 2025-06-16 and Sunday 2025-06-22
Saturday23 == 486095

Sunday10 == 486106

Monday00 == 486120

NextSunday23 == 486287

\* What one log is about, what it answers and when it was taken
LogKinds ==
  {<<1, "under", Saturday23>>, <<1, "unknown_then_over", Sunday10>>,
   <<2, "under_then_over", Sunday10>>, <<2, "none", Sunday10>>,
   <<3, "over", Monday00>>, <<1, "on_target", Monday00>>,
   <<3, "empty", NextSunday23>>, <<2, "over", NextSunday23>>}

\* The table qualityLogs after the submissions of kinds, one after the other
RECURSIVE LogsOf(_, _)
LogsOf(kinds, firstId) ==
  IF kinds = <<>> THEN <<>>
  ELSE createQualityLog(LogsOf(SubSeq(kinds, 1, Len(kinds) - 1), firstId),
                        LogArgs(AnalyticsCrops[kinds[Len(kinds)][1]],
                                AnswersOf(kinds[Len(kinds)][2])),
                        firstId + Len(kinds) - 1, kinds[Len(kinds)][3])

\* under logs, then over logs, then on-target logs of one crop in one hour
Tallied(under, over, onTarget) ==
  [i \in 1..(under + over + onTarget) |->
     <<1, IF i <= under THEN "under"
          ELSE IF i <= under + over THEN "over" ELSE "on_target", Sunday10>>]

\* The numbers of under, over and on-target logs of such a store
TalliedCounts ==
  {c \in (0..MaxLogs) \X (0..MaxLogs) \X (0..MaxLogs) : c[1] + c[2] + c[3] <= MaxLogs}

\* The stores: up to two logs in the order of their hours, and up to
\* MaxLogs logs of one crop
AnalyticsStores ==
  {LogsOf(kinds, AnalyticsDb.nextId) :
     kinds \in ({<<>>} \cup {<<k>> : k \in LogKinds})
                \cup {p \in LogKinds \X LogKinds : p[1][3] <= p[2][3]}
                \cup {Tallied(c[1], c[2], c[3]) : c \in TalliedCounts}}


\* A date of the date inputs of the analytics page
June15 == <<"2", "0", "2", "5", "-", "0", "6", "-", "1", "5">>

June16 == <<"2", "0", "2", "5", "-", "0", "6", "-", "1", "6">>

\* The filters of a query: none, a crop, a field, a first day, a last day,
\* and a crop with both days; an empty string filters nothing
AnalyticsFilters ==
  {[crop |-> c[1], field |-> c[2], startDate |-> c[3], endDate |-> c[4]] :
     c \in {<<Undefined, Undefined, Undefined, Undefined>>,
            <<<<"T">>, Undefined, Undefined, Undefined>>,
            <<<<>>, F2, <<>>, <<>>>>,
            <<Undefined, Undefined, June16, Undefined>>,
            <<Undefined, Undefined, Undefined, June15>>,
            <<<<"T">>, Undefined, June15, June16>>}}

\* The store the analytics page queries
InitAnalytics ==
  /\ sheets = AnalyticsDb.sheets
  /\ crops = AnalyticsDb.crops
  /\ qualifiers = <<>>
  /\ universalQualifiers = <<>>
  /\ settings = Some([spreadsheetId |-> ConfiguredSpreadsheet, sheetNames |-> <<F1, F2>>])
  /\ qualityLogs \in AnalyticsStores
  /\ nextId = AnalyticsDb.nextId + Len(qualityLogs)
  /\ qreq = None
  /\ run = IdleRun
  /\ now = NextSunday23
  /\ reply = NoReply

\* The analytics page queries the overview with the filters the user set
QueryAnalytics ==
  /\ \E args \in AnalyticsFilters :
       reply' = [op |-> "getAnalyticsOverview", caller |-> "user", arg |-> args,
                 result |-> getAnalyticsOverview(qualityLogs, crops, args)]
  /\ UNCHANGED <<sheets, crops, qualifiers, universalQualifiers, settings,
                 nextId, qreq, run, qualityLogs, now>>

Next ==
  \/ SetSettings
  \/ PostFieldSheet
  \/ DashboardPurge
  \/ PostQualifiers
  \/ QualifiersUniversal
  \/ QualifiersSnapshot
  \/ QualifiersFail
  \/ StartRun
  \/ RunQualifiers
  \/ RunSyncField
  \/ RunSheetNotFound
  \/ RunSheetError
  \/ RunFinish
  \/ PostRequest
  \/ SubmitLog
  \/ DashboardDeleteLog
  \/ ClientDeleteLog
  \/ ClearDemoData
  \/ ResyncLoggedField
  \/ PurgeLoggedField
  \/ Tick
  \/ ParseQualifiers
  \/ ParseField
  \/ ClassifyAnswer
  \/ QueryAnalytics

Spec == Init /\ [][Next]_vars

NextFields == PostFieldSheet \/ DashboardPurge

SpecFields == Init /\ [][NextFields]_vars

NextQualifiers ==
  \/ PostQualifiers
  \/ QualifiersUniversal
  \/ QualifiersSnapshot
  \/ QualifiersFail

SpecQualifiers == Init /\ [][NextQualifiers]_vars

\* startSync of the onboarding page when no request fails: the field sheets
\* and the Qualifiers sheet are posted, every mutation commits
NextOnboarding ==
  \/ PostFieldSheet
  \/ PostQualifiers
  \/ QualifiersUniversal
  \/ QualifiersSnapshot

SpecOnboarding == Init /\ [][NextOnboarding]_vars

\* The observed client posts requests, valid or not
NextRoute == PostRequest

SpecRoute == Init /\ [][NextRoute]_vars

\* Logs are submitted and deleted while the field sheets are synced and purged
NextLogs ==
  \/ ResyncLoggedField
  \/ PurgeLoggedField
  \/ SubmitLog
  \/ DashboardDeleteLog
  \/ ClientDeleteLog
  \/ ClearDemoData
  \/ Tick

SpecLogs == Init /\ [][NextLogs]_vars

\* Grids are parsed, one after the other
NextParser == ParseQualifiers

SpecParser == Init /\ [][NextParser]_vars

\* Field grids are parsed, one after the other
NextTabular == ParseField

SpecTabular == Init /\ [][NextTabular]_vars

\* Answers are classified, one after the other
NextBucket == ClassifyAnswer

SpecBucket == Init /\ [][NextBucket]_vars

\* The overview is queried over a store of logs, again and again
NextAnalytics == QueryAnalytics

SpecAnalytics == InitAnalytics /\ [][NextAnalytics]_vars

NextRun ==
  \/ SetSettings
  \/ QualifiersUniversal
  \/ QualifiersSnapshot
  \/ QualifiersFail
  \/ StartRun
  \/ RunQualifiers
  \/ RunSyncField
  \/ RunSheetNotFound
  \/ RunSheetError
  \/ RunFinish

SpecRun == Init /\ [][NextRun]_vars

(***************************************************************************)
(* Field sheets: the partition of a field is replaced as a whole.          *)
(***************************************************************************)
GridTomato == <<HeaderRow, RowTomato>>

GridTomatoKale == <<HeaderRow, RowTomato, RowKale>>

\* The grid the snapshot of (spreadsheetId, sheet) holds, None without snapshot
SnapshotData(table, spreadsheetId, sheetName) ==
  LET at == SheetIndex(table, spreadsheetId, RangeOf(sheetName))
  IN  IF at = 0 THEN None ELSE Some(table[at].data)

\* The step is a sync of the field sheet F of the spreadsheet with this grid
IsFieldSync(spreadsheetId, F, data) ==
  /\ SnapshotData(sheets', spreadsheetId, F) = Some(data)
  /\ FieldSync(spreadsheetId, F, data)

\* C1: a sync of field F that supplies a non-empty batch leaves as the stored
\* records of F exactly that batch, one stored record per parsed record:
\* whatever an earlier sync of F stored and the batch lacks is gone.
C1_FullReplace ==
  [][\A spreadsheetId \in SpreadsheetIds, F \in FieldNames, data \in FieldGrids :
       (IsFieldSync(spreadsheetId, F, data) /\ Len(parseSheetData(data, F)) > 0)
         => FieldView(F)' = parseSheetData(data, F)]_vars

\* F1 holds the one-record batch alone in the store, and the ids 2 and 3 went
\* to records of an earlier sync that the re-sync removed
C1_Witness ==
  /\ Len(sheets) = 1
  /\ FieldView(F1) = parseSheetData(GridTomato, F1)
  /\ Len(crops) = 1
  /\ crops[1]._id >= 4

\* C2: every completed sync of a field sheet, also one whose grid parses to
\* no record, leaves as the stored records of the field exactly the records
\* parsed from that grid.
C2_ReplaceOnEverySync ==
  [][\A spreadsheetId \in SpreadsheetIds, F \in FieldNames, data \in FieldGrids :
       IsFieldSync(spreadsheetId, F, data)
         => FieldView(F)' = parseSheetData(data, F)]_vars

\* C3: whenever the store can be read, the records of each field are the
\* whole batch of one sync of that field, or nothing: never a part of a batch
\* and never two batches mixed.
C3_WholeBatches ==
  \A F \in FieldNames :
    \/ FieldView(F) = <<>>
    \/ \E data \in FieldGrids : FieldView(F) = parseSheetData(data, F)

\* Both fields hold a batch, written by interleaved syncs
C3_Witness ==
  /\ FieldView(F1) = parseSheetData(GridTomatoKale, F1)
  /\ FieldView(F2) = parseSheetData(GridTomato, F2)

(***************************************************************************)
(* The Qualifiers sheet: three mutations per sync.                         *)
(***************************************************************************)
\* C4: the sync of the Qualifiers sheet is one transaction for readers and
\* failures: while a sync is under way or has failed, the stored definitions
\* and the stored universal questions are both those of before the sync or
\* both those of the sheet's parse, and after a failure both are those of
\* before the sync.
C4_OneTransaction ==
  qreq # None =>
    LET r == qreq[1]
        parsed == parseQualifiersSheet(r.data)
        Before == /\ Contents(qualifiers) = r.q0
                  /\ Contents(universalQualifiers) = r.u0
        After == /\ Contents(qualifiers) =
                      Contents(syncQualifiers(Db, parsed.vegetables).qualifiers)
                 /\ Contents(universalQualifiers) =
                      Contents(syncUniversalQualifiers(Db, parsed.universalQualifiers)
                                 .universalQualifiers)
    IN  /\ Before \/ After
        /\ r.pc = "failed" => Before

(***************************************************************************)
(* Snapshots: one per spreadsheet and range.                               *)
(***************************************************************************)
\* C5: through every sequence of field syncs and purges there is at most one
\* snapshot per (spreadsheetId, range), and a sync of a pair leaves that
\* pair's snapshot holding the synced grid: when the pair had a snapshot it is
\* the same document, patched in place, and the table keeps its length; when
\* it had none the table grows by one document; the snapshots of the other
\* pairs stay as they were.
C5_OneSnapshotPerPair ==
  [][/\ \A i, j \in 1..Len(sheets') :
          (/\ sheets'[i].spreadsheetId = sheets'[j].spreadsheetId
           /\ sheets'[i].range = sheets'[j].range) => i = j
     /\ \A spreadsheetId \in SpreadsheetIds, F \in FieldNames, data \in FieldGrids :
          FieldSync(spreadsheetId, F, data) =>
            LET existing == SheetIndex(sheets, spreadsheetId, RangeOf(F))
            IN  /\ SnapshotData(sheets', spreadsheetId, F) = Some(data)
                /\ IF existing # 0
                   THEN /\ Len(sheets') = Len(sheets)
                        /\ sheets'[existing]._id = sheets[existing]._id
                        /\ sheets'[existing].data = data
                   ELSE /\ Len(sheets') = Len(sheets) + 1
                        /\ sheets'[Len(sheets')].data = data
                /\ \A i \in 1..Len(sheets) : i # existing => sheets'[i] = sheets[i]]_vars

\* F1 has a snapshot in both spreadsheets; both were inserted with a grid
\* without records (they took the ids 1 and 2), and the first was patched
\* since: it holds the same id and the grid with the Tomato row
C5_Witness ==
  /\ Len(sheets) = 2
  /\ sheets[1]._id = 1 /\ sheets[1].spreadsheetId = "s1" /\ sheets[1].range = RangeOf(F1)
  /\ sheets[2]._id = 2 /\ sheets[2].spreadsheetId = "s2" /\ sheets[2].range = RangeOf(F1)
  /\ sheets[1].data = GridTomato
  /\ sheets[2].data = <<HeaderRow>>

(***************************************************************************)
(* Re-running a sync.                                                      *)
(***************************************************************************)
\* C6: a sync is idempotent: right after the sync of a field sheet, and
\* right after the last mutation of the sync of the Qualifiers sheet, the
\* same sync with the same grid once more leaves the same snapshots,
\* planting records, definitions and universal questions, record ids apart.
C6_Idempotent ==
  [][/\ \A spreadsheetId \in SpreadsheetIds, F \in FieldNames, data \in FieldGrids :
          IsFieldSync(spreadsheetId, F, data) =>
            ViewOf(syncSheetData(Db', spreadsheetId, RangeOf(F), data,
                                 Some(parseSheetData(data, F)))) = ViewOf(Db')
     /\ QualifiersSnapshot =>
          ViewOf(QualifiersSync(Db', qreq[1].spreadsheetId, qreq[1].sheetName,
                                qreq[1].data)) = ViewOf(Db')]_vars

\* F1 of spreadsheet s1 has been synced twice with the Tomato grid, and
\* nothing else: the snapshot took the id 1, the record of the first sync the
\* id 2, and the record of the second sync, the only one stored, the id 3
C6_Witness ==
  /\ Len(sheets) = 1
  /\ sheets[1]._id = 1
  /\ sheets[1].spreadsheetId = "s1"
  /\ sheets[1].range = RangeOf(F1)
  /\ sheets[1].data = GridTomato
  /\ FieldView(F1) = parseSheetData(GridTomato, F1)
  /\ Len(crops) = 1
  /\ crops[1]._id = 3
  /\ nextId = 4
  /\ qualifiers = <<>>
  /\ universalQualifiers = <<>>

(***************************************************************************)
(* Qualifier definitions and universal questions.                          *)
(***************************************************************************)
\* The key of a definition: its name and its location, undefined included
KeyOf(doc) == <<doc.name, doc.location>>

\* C7: no two stored definitions have the same (name, location), an absent
\* location being a location of its own, and a syncQualifiers call keeps the
\* key of every stored definition, leaves alone every stored definition whose
\* key the input lacks (same name with another location included), and
\* leaves for every input definition a stored one with that very key and the
\* assessments of the input.
C7_KeyedByNameAndLocation ==
  [][/\ \A i, j \in 1..Len(qualifiers') :
          KeyOf(qualifiers'[i]) = KeyOf(qualifiers'[j]) => i = j
     /\ \A data \in QualifierGrids :
          (/\ qreq' # None
           /\ qreq'[1].data = data
           /\ QualifiersStart("client", ConfiguredSpreadsheet, QualifiersName, data)) =>
            LET qs == parseQualifiersSheet(data).vegetables
                keys == {KeyOf(qs[k]) : k \in 1..Len(qs)}
            IN  /\ Len(qualifiers') >= Len(qualifiers)
                /\ \A i \in 1..Len(qualifiers) :
                     /\ KeyOf(qualifiers'[i]) = KeyOf(qualifiers[i])
                     /\ KeyOf(qualifiers[i]) \notin keys => qualifiers'[i] = qualifiers[i]
                /\ \A k \in 1..Len(qs) :
                     (\A later \in (k + 1)..Len(qs) : KeyOf(qs[later]) # KeyOf(qs[k])) =>
                       \E i \in 1..Len(qualifiers') :
                         /\ KeyOf(qualifiers'[i]) = KeyOf(qs[k])
                         /\ qualifiers'[i].assessments = qs[k].assessments]_vars

\* A sync has just rewritten the definition of A without location (it asks
\* p? now) while the definition of A at H, stored by an earlier sync, is
\* still there beside it
C7_Witness ==
  /\ qreq # None
  /\ qreq[1].pc = "syncedQualifiers"
  /\ qreq[1].data = QGridTwoCrops
  /\ \E i, j \in 1..Len(qualifiers) :
       /\ KeyOf(qualifiers[i]) = <<<<"A">>, Undefined>>
       /\ Len(qualifiers[i].assessments) = 1
       /\ qualifiers[i].assessments[1].name = <<"p", "?">>
       /\ KeyOf(qualifiers[j]) = <<<<"A">>, <<"H">>>>

\* C8: after a syncUniversalQualifiers call the stored universal questions
\* are exactly the questions of the call's input, one document per input
\* question with its name, options and order.
C8_UniversalSetReplaced ==
  [][QualifiersUniversal =>
       LET qs == qreq[1].universalQualifiers
       IN  /\ Len(universalQualifiers') = Len(qs)
           /\ {StripDoc(universalQualifiers'[i]) : i \in 1..Len(universalQualifiers')}
                = {qs[k] : k \in 1..Len(qs)}]_vars

\* The call has run, and a question that was universal before the sync is no
\* longer stored
C8_Witness ==
  /\ qreq # None
  /\ qreq[1].pc = "syncedUniversal"
  /\ Len(universalQualifiers) > 0
  /\ \E i \in 1..Len(qreq[1].u0) :
       \A k \in 1..Len(universalQualifiers) :
         universalQualifiers[k].name # qreq[1].u0[i].name

\* C9: when no sync of the Qualifiers sheet is under way, no stored
\* definition asks a question that is stored as a universal question.
C9_UniversalStoredOnce ==
  qreq = None =>
    \A i \in 1..Len(qualifiers), u \in 1..Len(universalQualifiers) :
      \A a \in 1..Len(qualifiers[i].assessments) :
        qualifiers[i].assessments[a].name # universalQualifiers[u].name

(***************************************************************************)
(* The loop over the sheets: a sheet that is gone.                         *)
(***************************************************************************)
\* C10: when the sync of the loop's current sheet answers 404
\* SHEET_NOT_FOUND, the snapshot of that sheet and every planting record of
\* that field are gone from the store, the records of every other field are
\* as before, the loop is not in the error state and stands at the next
\* sheet of the same list.
C10_PurgeAndContinue ==
  [][RunSheetNotFound =>
       /\ SheetIndex(sheets', run.config[1].spreadsheetId, RangeOf(CurrentSheet)) = 0
       /\ \A k \in 1..Len(crops') : crops'[k].field # CurrentSheet
       /\ \A F \in FieldNames \ {CurrentSheet} :
            SelectSeq(crops', LAMBDA c : c.field = F) = getCropsByField(F)
       /\ run'.status = "syncing"
       /\ run'.allSheets = run.allSheets
       /\ run'.i = run.i + 1]_vars

\* The loop has purged F1 and stands at F2: the ids 1 and 2, taken by the
\* snapshot and the record of F1, are gone from the store, and the snapshot
\* and the record of F2 are there
C10_Witness ==
  /\ run.status = "syncing"
  /\ run.i = 2
  /\ Len(run.allSheets) = 3
  /\ run.allSheets[2] = F1 /\ run.allSheets[3] = F2
  /\ \E k \in 1..Len(run.removedSheets) : run.removedSheets[k] = F1
  /\ Len(sheets) = 1 /\ sheets[1]._id = 3 /\ sheets[1].range = RangeOf(F2)
  /\ Len(crops) = 1 /\ crops[1]._id = 4 /\ crops[1].field = F2
  /\ qualifiers = <<>> /\ universalQualifiers = <<>>

\* The step ends the loop: it was syncing and has returned
RunEnds == run.status = "syncing" /\ run'.status \in {"complete", "error"}

\* C11: when the loop ends, in whatever way, no sheet it purged as not found
\* during the run is in the stored sheetNames.
C11_PurgedSheetsDropped ==
  [][RunEnds =>
       \A k \in 1..Len(run'.removedSheets) :
         \A n \in 1..Len(settings'[1].sheetNames) :
           settings'[1].sheetNames[n] # run'.removedSheets[k]]_vars

\* The sync of the loop's current sheet fails with an error other than not
\* found: before any mutation, or between the mutations of the Qualifiers route
RunSheetFails ==
  \/ RunSheetError
  \/ (QualifiersFail /\ qreq[1].owner = "run")

C13_RejectedBeforeMutation ==
  [][\A caller \in Callers, spreadsheetId \in RequestIds, sheetName \in RequestNames,
        data \in RunFieldGrids :
       (/\ spreadsheetId = "" \/ ~Truthy(sheetName)
        /\ PostOf(caller, spreadsheetId, sheetName, data)) =>
         /\ caller = "admin" => reply'.result = 400
         /\ reply'.result # 200
         /\ sheets' = sheets
         /\ crops' = crops
         /\ qualifiers' = qualifiers
         /\ universalQualifiers' = universalQualifiers]_vars

\* An admin's request without sheet name has just been answered 400, and
\* the snapshot and the record of F1 of an earlier sync are in the store
C13_Witness ==
  /\ reply.op = "sync"
  /\ reply.caller = "admin"
  /\ reply.arg = <<ConfiguredSpreadsheet, Undefined>>
  /\ reply.result = 400
  /\ Len(sheets) = 1
  /\ FieldView(F1) = parseSheetData(GridTomato, F1)

(***************************************************************************)
(* Quality logs: created once, never changed, deleted as a whole.          *)
(***************************************************************************)
\* The ids of the documents of a table
IdsOf(table) == {table[i]._id : i \in 1..Len(table)}

\* C14: a log that is in the store before and after a step, whatever the
\* step (a submission, a deletion, a sync or a purge of the field sheet, a
\* clearing), is the same document after it: crop, variety, field, bed,
\* datePlanted, trays, rows, plantingNotes, responses and assessmentDate
\* included.
C14_LogsImmutable ==
  [][\A i \in 1..Len(qualityLogs'), j \in 1..Len(qualityLogs) :
       qualityLogs'[i]._id = qualityLogs[j]._id => qualityLogs'[i] = qualityLogs[j]]_vars

\* A log of the Tomato record of F1 is stored with the planting context it
\* was submitted with, while the record it refers to is no longer stored
C14_Witness ==
  \E i \in 1..Len(qualityLogs) :
    /\ qualityLogs[i].cropId \notin IdsOf(crops)
    /\ LogContent(qualityLogs[i]) =
         LogArgs(parseSheetData(GridTomato, F1)[1] @@ [_id |-> qualityLogs[i].cropId],
                 <<>>)

\* C15: a createQualityLog call adds one log at the end of the table, with
\* an id no stored log has, the content of the call, and assessmentDate and
\* createdAt both the server time of the call; the logs stored before are
\* all there, unchanged, also one with the very same content.
C15_CreateAddsOneLog ==
  [][\A k \in 1..Len(crops), responses \in ResponseLists :
       SubmitLogOf(crops[k], responses) =>
         LET new == qualityLogs'[Len(qualityLogs')]
         IN  /\ Len(qualityLogs') = Len(qualityLogs) + 1
             /\ SubSeq(qualityLogs', 1, Len(qualityLogs)) = qualityLogs
             /\ new._id \notin IdsOf(qualityLogs)
             /\ LogContent(new) = LogArgs(crops[k], responses)
             /\ new.assessmentDate = now
             /\ new.createdAt = now]_vars

\* Two logs with the same content and the same times are stored under two ids
C15_Witness ==
  \E i, j \in 1..Len(qualityLogs) :
    /\ i # j
    /\ qualityLogs[i]._id # qualityLogs[j]._id
    /\ LogContent(qualityLogs[i]) = LogContent(qualityLogs[j])
    /\ qualityLogs[i].createdAt = qualityLogs[j].createdAt

\* C16: deleteQualityLog with the id of a stored log succeeds and removes
\* that log alone, the others staying as they are and in their order; with
\* an id no stored log has it fails with "Quality log not found" and leaves
\* the logs as they are.  (The call of a step is the one its answer names.)
C16_DeleteExactlyOne ==
  [][reply'.op = "deleteQualityLog" =>
       LET id == reply'.arg
       IN  DeleteLogOf(reply'.caller, id) =>
         IF id \in IdsOf(qualityLogs)
         THEN /\ reply'.result = "success"
              /\ qualityLogs' = SelectSeq(qualityLogs, LAMBDA l : l._id # id)
              /\ Len(qualityLogs') = Len(qualityLogs) - 1
         ELSE /\ reply'.result = "Quality log not found"
              /\ qualityLogs' = qualityLogs]_vars

\* The log with the id 3, submitted for the record of F1 and deleted since,
\* has been asked to be deleted once more: the call failed
C16_Witness ==
  /\ reply.op = "deleteQualityLog"
  /\ reply.arg = 3
  /\ reply.result = "Quality log not found"
  /\ Len(sheets) = 1 /\ sheets[1]._id = 1
  /\ Len(crops) = 1 /\ crops[1]._id = 2
  /\ qualityLogs = <<>>
  /\ nextId = 4

\* C17: a log leaves the store only by a deleteQualityLog call of an admin.
C17_OnlyAdminDeletes ==
  [][(\E j \in 1..Len(qualityLogs) : qualityLogs[j]._id \notin IdsOf(qualityLogs')) =>
       /\ reply'.op = "deleteQualityLog"
       /\ reply'.caller = "admin"]_vars

(***************************************************************************)
(* The result of the Qualifiers parser.                                    *)
(***************************************************************************)
\* The names of a list of questions
NamesOf(questions) == {questions[i].name : i \in 1..Len(questions)}

\* C18: of the questions of the surviving crop entries, the universal ones
\* are those that every surviving entry has; each is returned once in
\* universalQualifiers and in no crop entry, and every entry keeps its other
\* questions, with their options and in their order.
C18_UniversalIffInEveryEntry ==
  reply.op = "parseQualifiersSheet" =>
    LET surviving == SurvivingVegetables(reply.arg)
        result == reply.result
        universal == result.universalQualifiers
    IN  /\ Len(result.vegetables) = Len(surviving)
        /\ \A v \in 1..Len(surviving) :
             /\ result.vegetables[v].name = surviving[v].name
             /\ result.vegetables[v].location = surviving[v].location
             /\ \A n \in NamesOf(surviving[v].assessments) :
                  n \in NamesOf(universal) <=>
                    \A w \in 1..Len(surviving) : n \in NamesOf(surviving[w].assessments)
             /\ NamesOf(result.vegetables[v].assessments) \cap NamesOf(universal) = {}
             /\ result.vegetables[v].assessments =
                  SelectSeq(surviving[v].assessments,
                            LAMBDA a : a.name \notin NamesOf(universal))
        /\ \A i \in 1..Len(universal) :
             /\ \E v \in 1..Len(surviving) :
                  universal[i].name \in NamesOf(surviving[v].assessments)
             /\ \A j \in 1..Len(universal) :
                  universal[i].name = universal[j].name => i = j

\* A grid with the blocks A {p?, q?} and B {p?} was parsed: p? is the one
\* universal question, q? stays with A
C18_Witness ==
  /\ reply.op = "parseQualifiersSheet"
  /\ Len(reply.result.vegetables) = 2
  /\ NamesOf(reply.result.universalQualifiers) = {<<"p", "?">>}
  /\ NamesOf(reply.result.vegetables[1].assessments) = {<<"q", "?">>}
  /\ reply.result.vegetables[1].assessments[1].options = << <<"y">> >>
  /\ reply.result.vegetables[2].assessments = <<>>

\* C19: every returned crop entry has a question, and a question with an
\* option.
C19_NoEmptyDefinition ==
  reply.op = "parseQualifiersSheet" =>
    \A v \in 1..Len(reply.result.vegetables) :
      LET assessments == reply.result.vegetables[v].assessments
      IN  /\ Len(assessments) > 0
          /\ \E i \in 1..Len(assessments) : Len(assessments[i].options) > 0

\* A cell of a header row that is a question
IsQuestionCell(cell) ==
  Trim(OrEmpty(cell)) # <<>> /\ EndsWith(Trim(OrEmpty(cell)), <<"?">>)

\* The option an option cell holds, <<>> when it holds none
OptionOfCell(cell) ==
  LET c == Trim(OrEmpty(cell))
      option == IF StartsWith(c, <<"-", " ">>) THEN Trim(SubSeq(c, 3, Len(c))) ELSE c
  IN  IF option # <<>> /\ ~EndsWith(option, <<"?">>) THEN option ELSE <<>>

\* The options the result gives a question of a crop: those of the crop's
\* entry and those of the universal question of that name
OptionsIn(result, crop, question) ==
  {a.options : a \in
     {result.universalQualifiers[i] : i \in 1..Len(result.universalQualifiers)}
       \cup UNION {{result.vegetables[v].assessments[i] :
                      i \in 1..Len(result.vegetables[v].assessments)} :
                   v \in {w \in 1..Len(result.vegetables) :
                            result.vegetables[w].name = crop}}}

\* C20: in the first block of a grid, an option in column j of an option row
\* is among the options of the question that stands in column j of the
\* header row.
C20_OptionsAlignedWithHeader ==
  reply.op = "parseQualifiersSheet" =>
    LET data == reply.arg
        header == data[1]
    IN  Len(data) >= 2 =>
          \A j \in 2..Len(data[2]) :
            (j <= Len(header) /\ IsQuestionCell(header[j])
               /\ OptionOfCell(data[2][j]) # <<>>) =>
              \E options \in OptionsIn(reply.result, Trim(header[1]), Trim(header[j])) :
                \E k \in 1..Len(options) : options[k] = OptionOfCell(data[2][j])

(***************************************************************************)
(* The result of the tabular parser.                                       *)
(***************************************************************************)
\* The call of the tabular parser the last answer belongs to
Parsed == reply.op = "parseSheetData"

\* The cell of a row, "" when the row has no such cell
Cell(row, i) == OrEmpty(At(row, i))

\* The rows of the parsed grid below row 0
BodyOf(data) == IF Len(data) = 0 THEN <<>> ELSE Tail(data)

\* A row with several crops in its crop:variety cell
IsMultiCrop(row) == Includes(Cell(row, 1), SlashSep)

\* C21: a grid with one multi-crop row below row 0 gives one record per
\* sub-entry that has a crop name, in the order of the sub-entries, each with
\* the bed, rows, date and notes of the row; the record of sub-entry i has
\* tray token i when the trays cell has as many tokens as the crop cell, and
\* the first tray token otherwise.
C21_OneRecordPerSubEntry ==
  (Parsed /\ Len(reply.arg[1]) = 2 /\ IsMultiCrop(reply.arg[1][2])) =>
    LET row == reply.arg[1][2]
        result == reply.result
        cropParts == MapTrim(Split(Cell(row, 1), SlashSep))
        traysParts == MapTrim(Split(Cell(row, 2), SlashSep))
        N == Len(cropParts)
        kept == SelectSeq([i \in 1..N |-> i],
                          LAMBDA i : Trim(CropOf(cropParts[i])) # <<>>)
    IN  /\ Len(result) = Len(kept)
        /\ \A n \in 1..Len(result) :
             /\ result[n].crop = Trim(CropOf(cropParts[kept[n]]))
             /\ result[n].variety = Trim(VarietyOf(cropParts[kept[n]]))
             /\ result[n].bed = Cell(row, 0)
             /\ result[n].rows = Cell(row, 3)
             /\ result[n].date = Cell(row, 4)
             /\ result[n].notes = Cell(row, 5)
             /\ result[n].trays = IF Len(traysParts) = N
                                  THEN traysParts[kept[n]]
                                  ELSE traysParts[1]

\* A row the parser passes over: no bed and no crop:variety cell
IsEmptyRow(row) == Cell(row, 0) = <<>> /\ Cell(row, 1) = <<>>

\* The crop names a row offers: the part before ":" of each sub-entry of
\* its crop:variety cell, trimmed
CropNamesOf(row) ==
  LET parts == Split(Cell(row, 1), SlashSep)
  IN  {Trim(CropOf(Trim(parts[i]))) : i \in 1..Len(parts)}

\* The number of sub-entries of the rows that are not passed over
RECURSIVE SubEntryCount(_)
SubEntryCount(rows) ==
  IF rows = <<>> THEN 0
  ELSE (IF IsEmptyRow(Head(rows)) THEN 0
        ELSE Len(Split(Cell(Head(rows), 1), SlashSep)))
       + SubEntryCount(Tail(rows))

\* C22: whatever the grid, rows shorter than six cells included, the crop of
\* every record is non-empty and trimmed, every record is that of a row below
\* row 0 that has a bed or a crop:variety cell and offers the record's crop,
\* there are no more records than such rows have sub-entries, and there is
\* none when no row below row 0 has a bed or a crop:variety cell.
C22_OnlyRowsWithCrop ==
  Parsed =>
    LET body == BodyOf(reply.arg[1])
        result == reply.result
    IN  /\ \A n \in 1..Len(result) :
             /\ result[n].crop # <<>>
             /\ Trim(result[n].crop) = result[n].crop
             /\ \E r \in 1..Len(body) :
                  /\ ~IsEmptyRow(body[r])
                  /\ result[n].bed = Cell(body[r], 0)
                  /\ result[n].crop \in CropNamesOf(body[r])
        /\ Len(result) <= SubEntryCount(body)
        /\ (\A r \in 1..Len(body) : IsEmptyRow(body[r])) => result = <<>>

\* A grid whose row 0 reads like a planting, followed by a row with a bed
\* alone and the Tomato row, was parsed: the one record is that of Tomato
C22_Witness ==
  /\ Parsed
  /\ reply.arg[1] = <<RowKale, RowBedOnly, RowTomato>>
  /\ Len(reply.result) = 1
  /\ reply.result[1].crop = <<"T">>
  /\ reply.result[1].bed = <<"1">>

\* The trigger phrases of a replanting note, each followed by what was planted
ReplacedPhrases ==
  {<<"r","e","p","l","a","c","e","d"," ","w","i","t","h"," ">>,
   <<"r","e","p","l","a","c","e","d"," ","b","y"," ">>}

ReplantedPhrases == {<<"r","e","p","l","a","n","t","e","d"," ","w","i","t","h"," ">>}

HasPhrase(notes, phrases) == \E p \in phrases : Includes(ToLowerCase(notes), p)

\* The phrase of a note that stands before its first "replaced"
OriginalPhrase(notes) ==
  Trim(SubSeq(notes, 1, IndexOf(ToLowerCase(notes), Replaced) - 1))

\* C23: a grid with one row below row 0.  The records of a multi-crop row
\* have no replantedFrom.  The record of a single-crop row has one exactly
\* when its notes hold a trigger phrase; it then has the whole note as notes
\* and no date, and as crop and variety the parts before and after ":" of the
\* phrase before "replaced with" or "replaced by", both empty when the note
\* holds "replanted with" alone; a note with both triggers goes by "replaced".
C23_ReplantingOnSingleCropRows ==
  (Parsed /\ Len(reply.arg[1]) = 2) =>
    LET row == reply.arg[1][2]
        notes == Cell(row, 5)
        result == reply.result
        original == OriginalPhrase(notes)
    IN  \A n \in 1..Len(result) :
          IF IsMultiCrop(row) THEN "replantedFrom" \notin DOMAIN result[n]
          ELSE /\ "replantedFrom" \in DOMAIN result[n] <=>
                    HasPhrase(notes, ReplacedPhrases \cup ReplantedPhrases)
               /\ "replantedFrom" \in DOMAIN result[n] =>
                    /\ result[n].replantedFrom.notes = notes
                    /\ result[n].replantedFrom.date = <<>>
                    /\ result[n].replantedFrom.crop =
                         IF ~HasPhrase(notes, ReplacedPhrases) THEN <<>>
                         ELSE IF Includes(original, <<":">>)
                         THEN Trim(Split(original, <<":">>)[1])
                         ELSE original
                    /\ result[n].replantedFrom.variety =
                         IF ~HasPhrase(notes, ReplacedPhrases) THEN <<>>
                         ELSE IF Includes(original, <<":">>)
                         THEN Trim(Split(original, <<":">>)[2])
                         ELSE <<>>

\* The row with both triggers in its note was parsed: the record names T as
\* the crop that was replaced
C23_Witness ==
  /\ Parsed
  /\ reply.arg[1] = <<HeaderRow, RowBothTriggers>>
  /\ Len(reply.result) = 1
  /\ "replantedFrom" \in DOMAIN reply.result[1]
  /\ reply.result[1].replantedFrom.crop = <<"T">>
  /\ reply.result[1].replantedFrom.notes = RowBothTriggers[6]

\* C24: every record the parser returns has a location, the class of the
\* sheet name: high tunnel when the name holds "ht" or "high tunnel",
\* greenhouse when it holds "greenhouse" or "gh", open field otherwise,
\* whatever the letter case.
C24_EveryRecordHasLocation ==
  Parsed =>
    LET name == ToLowerCase(reply.arg[2])
        class ==
          IF Includes(name, <<"h","t">>)
               \/ Includes(name, <<"h","i","g","h"," ","t","u","n","n","e","l">>)
          THEN "high tunnel"
          ELSE IF Includes(name, <<"g","r","e","e","n","h","o","u","s","e">>)
                    \/ Includes(name, <<"g","h">>)
          THEN "greenhouse"
          ELSE "open field"
    IN  \A n \in 1..Len(reply.result) :
          /\ "location" \in DOMAIN reply.result[n]
          /\ reply.result[n].location = class

(***************************************************************************)
(* The planning classification.                                            *)
(***************************************************************************)
\* The answer holds one of the keywords, whatever its letter case and its
\* whitespace
HasKeyword(answer, keywords) ==
  \E k \in keywords : Includes(normalizeLabel(answer), k)

\* C25: every answer gets one of the four buckets: under when it holds an
\* under keyword, otherwise over when it holds an over keyword, otherwise
\* on_target when it holds an on_target keyword, otherwise unknown; so "too
\* much" is over, "not enough" under, "just right" on_target, and an answer
\* with an under and an over keyword is under.
C25_BucketByPrecedence ==
  reply.op = "getPlanningBucket" =>
    LET answer == reply.arg
        bucket == reply.result
    IN  /\ bucket \in {"under", "over", "on_target", "unknown"}
        /\ bucket = "under" <=> HasKeyword(answer, UnderKeywords)
        /\ bucket = "over" <=>
             (~HasKeyword(answer, UnderKeywords) /\ HasKeyword(answer, OverKeywords))
        /\ bucket = "on_target" <=>
             /\ ~HasKeyword(answer, UnderKeywords)
             /\ ~HasKeyword(answer, OverKeywords)
             /\ HasKeyword(answer, OnTargetKeywords)
        /\ answer = <<"t","o","o"," ","m","u","c","h">> => bucket = "over"
        /\ answer = <<"n","o","t"," ","e","n","o","u","g","h">> => bucket = "under"
        /\ answer = <<"j","u","s","t"," ","r","i","g","h","t">> => bucket = "on_target"
        /\ answer = Green => bucket = "unknown"

\* An answer with an over keyword before an under keyword was classified
\* as under
C25_Witness ==
  /\ reply.op = "getPlanningBucket"
  /\ reply.arg = <<"t","o","o"," ","m","u","c","h",","," ","n","o","t"," ","e","n","o","u","g","h">>
  /\ reply.result = "under"


(***************************************************************************)
(* The analytics of the quality logs.                                      *)
(***************************************************************************)
Overviewed == reply.op = "getAnalyticsOverview"

NoFilter ==
  [crop |-> Undefined, field |-> Undefined, startDate |-> Undefined,
   endDate |-> Undefined]

\* The index of the first response of a log whose question asks for the
\* planting quantity, 0 if there is none
FirstMatching(log) ==
  First({i \in 1..Len(log.responses) : isPlanningQuestion(log.responses[i].question)})

\* The logs with a planning data point in bucket
PointsIn(logs, bucket) ==
  SelectSeq(logs, LAMBDA log :
    /\ FirstMatching(log) # 0
    /\ getPlanningBucket(log.responses[FirstMatching(log)].answer) = bucket)

\* The logs with a planning data point
PointsOf(logs) == SelectSeq(logs, LAMBDA log : FirstMatching(log) # 0)

\* The counters of a planning row are the numbers of the data points of logs
CountsPoints(row, logs) ==
  /\ row.total = Len(PointsOf(logs))
  /\ row.under = Len(PointsIn(logs, "under"))
  /\ row.onTarget = Len(PointsIn(logs, "on_target"))
  /\ row.over = Len(PointsIn(logs, "over"))
  /\ row.unknown = Len(PointsIn(logs, "unknown"))

\* C26: every filtered log contributes at most one planning data point, the
\* one of its first response whose question asks for the planting quantity,
\* whatever that answer classifies as and whatever later responses say: the
\* overall counts and the rows per crop, per field and per week count exactly
\* those data points.  A log without such a question is in none of them, and
\* is counted in totals.totalLogs and in the tallies per question.
C26_OnePointFromFirstMatching ==
  Overviewed =>
    LET logs == FilterLogs(qualityLogs, reply.arg)
        result == reply.result
        planning == result.planning
        responses == AllResponses(logs)
    IN  /\ result.totals.totalLogs = Len(logs)
        /\ \A i \in 1..Len(responses) :
             \E j \in 1..Len(result.responseByQuestion) :
               /\ result.responseByQuestion[j].question = responses[i].question
               /\ result.responseByQuestion[j].total =
                    Cardinality({k \in 1..Len(responses) :
                                   responses[k].question = responses[i].question})
        /\ CountsPoints([total |-> planning.sampleSize,
                         under |-> planning.underCount,
                         onTarget |-> planning.onTargetCount,
                         over |-> planning.overCount,
                         unknown |-> planning.unknownCount], logs)
        /\ Len(planning.byCrop) =
             Cardinality({PointsOf(logs)[i].crop : i \in 1..Len(PointsOf(logs))})
        /\ \A i \in 1..Len(planning.byCrop) :
             /\ planning.byCrop[i].total > 0
             /\ CountsPoints(planning.byCrop[i],
                  SelectSeq(logs, LAMBDA log : log.crop = planning.byCrop[i].crop))
        /\ Len(planning.byField) =
             Cardinality({PointsOf(logs)[i].field : i \in 1..Len(PointsOf(logs))})
        /\ \A i \in 1..Len(planning.byField) :
             /\ planning.byField[i].total > 0
             /\ CountsPoints(planning.byField[i],
                  SelectSeq(logs, LAMBDA log : log.field = planning.byField[i].field))
        /\ Len(planning.trend) =
             Cardinality({weekKey(PointsOf(logs)[i]) : i \in 1..Len(PointsOf(logs))})
        /\ \A i \in 1..Len(planning.trend) :
             /\ planning.trend[i].total > 0
             /\ CountsPoints(planning.trend[i],
                  SelectSeq(logs, LAMBDA log : weekKey(log) = planning.trend[i].weekStart))

\* A log whose first planning answer is unknown and whose later one is over,
\* and a log without planning question: one data point, which is unknown
C26_Witness ==
  /\ Overviewed
  /\ reply.arg = NoFilter
  /\ Len(qualityLogs) = 2
  /\ qualityLogs[1].responses = AnswersOf("unknown_then_over")
  /\ qualityLogs[2].responses = AnswersOf("none")
  /\ reply.result.totals.totalLogs = 2
  /\ reply.result.planning.sampleSize = 1
  /\ reply.result.planning.unknownCount = 1
  /\ reply.result.planning.overCount = 0


\* underRate and overRate of a planning row are its under and over counts as
\* percentages of its total, and its balance is their difference
RatesOfCounts(row, under, over, total) ==
  /\ row.underRate = (IF total > 0 THEN Rate(under, total) ELSE DoubleZero)
  /\ row.overRate = (IF total > 0 THEN Rate(over, total) ELSE DoubleZero)
  /\ row.balance = DoubleMinus(row.underRate, row.overRate)

\* C27: overall, per crop, per field and per week, underRate and overRate are
\* the under and over counts as percentages of the planning total of that
\* granularity, and balance is underRate minus overRate; a crop with 3 under,
\* 1 on-target and 0 over answers of 4 has balance 75, and the overall balance
\* is 0 without any planning data point.
C27_BalanceIsUnderMinusOver ==
  Overviewed =>
    LET planning == reply.result.planning
        rows == planning.byCrop \o planning.byField \o planning.trend
    IN  /\ RatesOfCounts(planning, planning.underCount, planning.overCount,
                         planning.sampleSize)
        /\ \A i \in 1..Len(rows) :
             RatesOfCounts(rows[i], rows[i].under, rows[i].over, rows[i].total)
        /\ \A i \in 1..Len(planning.byCrop) :
             /\ planning.byCrop[i].under = 3
             /\ planning.byCrop[i].onTarget = 1
             /\ planning.byCrop[i].over = 0
             /\ planning.byCrop[i].total = 4
             => planning.byCrop[i].balance = DoubleDivide(75, 1)
        /\ planning.sampleSize = 0 => planning.balance = DoubleZero


\* The logs of logs taken in the seven days from the day monday on
InWeekOf(logs, monday) ==
  SelectSeq(logs, LAMBDA log :
    /\ monday <= DayOf(log.assessmentDate)
    /\ DayOf(log.assessmentDate) <= monday + 6)

\* C28: every log is counted under the UTC Monday on or before the day of
\* its assessmentDate, at most six days earlier, so a log of a Sunday under
\* the Monday six days before it and not under the next day; two logs are
\* counted under the same week key exactly when they lie in the same week
\* from Monday to Sunday: the rows of logsByWeek have different keys, each
\* the date of a Monday, and count the logs of the seven days from it on.
C28_WeekOfPrecedingMonday ==
  Overviewed =>
    LET logs == FilterLogs(qualityLogs, reply.arg)
        weeks == reply.result.logsByWeek
        monday == [j \in 1..Len(weeks) |-> DayOfDateString(weeks[j].weekStart)]
    IN  /\ \A j \in 1..Len(weeks) :
             /\ getUTCDay(monday[j]) = 1
             /\ weeks[j].weekStart = dateKey(monday[j])
             /\ weeks[j].logsCount = Len(InWeekOf(logs, monday[j]))
             /\ weeks[j].logsCount > 0
             /\ \A k \in 1..Len(weeks) : monday[j] = monday[k] => j = k
        /\ \A i \in 1..Len(logs) :
             \E j \in 1..Len(weeks) : InWeekOf(<<logs[i]>>, monday[j]) # <<>>
        /\ \A i \in 1..Len(reply.result.planning.trend) :
             \E j \in 1..Len(weeks) :
               /\ weeks[j].weekStart = reply.result.planning.trend[i].weekStart
               /\ reply.result.planning.trend[i].total =
                    Len(PointsOf(InWeekOf(logs, monday[j])))

\* A log of Sunday 2025-06-15 is counted under Monday 2025-06-09, a log of
\* Monday 2025-06-16 under its own day
C28_Witness ==
  /\ Overviewed
  /\ reply.arg = NoFilter
  /\ Len(qualityLogs) = 2
  /\ qualityLogs[1].assessmentDate = Sunday10
  /\ qualityLogs[2].assessmentDate = Monday00
  /\ reply.result.logsByWeek =
       <<[weekStart |-> <<"2", "0", "2", "5", "-", "0", "6", "-", "0", "9">>, logsCount |-> 1],
         [weekStart |-> <<"2", "0", "2", "5", "-", "0", "6", "-", "1", "6">>, logsCount |-> 1]>>


\* The sum of the field of the rows
RECURSIVE SumOf(_, _)
SumOf(rows, field) ==
  IF rows = <<>> THEN 0 ELSE Head(rows)[field] + SumOf(Tail(rows), field)

\* C29: for every store of logs and every filter the counts of the overview
\* add up: underCount + onTargetCount + overCount + unknownCount is
\* planning.sampleSize, which is at most totals.totalLogs; the totals of the
\* rows of planning.byCrop, of planning.byField and of planning.trend each add
\* up to planning.sampleSize; the values of byCrop and of byField and the
\* counts of logsByWeek each add up to totals.totalLogs.
C29_CountsAddUp ==
  Overviewed =>
    LET result == reply.result
        planning == result.planning
    IN  /\ planning.underCount + planning.onTargetCount + planning.overCount
             + planning.unknownCount = planning.sampleSize
        /\ planning.sampleSize <= result.totals.totalLogs
        /\ SumOf(planning.byCrop, "total") = planning.sampleSize
        /\ SumOf(planning.byField, "total") = planning.sampleSize
        /\ SumOf(planning.trend, "total") = planning.sampleSize
        /\ SumOf(result.byCrop, "value") = result.totals.totalLogs
        /\ SumOf(result.byField, "value") = result.totals.totalLogs
        /\ SumOf(result.logsByWeek, "logsCount") = result.totals.totalLogs

\* Two logs of different crops, fields and weeks, one of them without
\* planning question, and a filter that keeps both
C29_Witness ==
  /\ Overviewed
  /\ reply.result.totals.totalLogs = 2
  /\ reply.result.planning.sampleSize = 1
  /\ Len(reply.result.byCrop) = 2
  /\ Len(reply.result.byField) = 2
  /\ Len(reply.result.logsByWeek) = 2
  /\ Len(reply.result.planning.trend) = 1


(***************************************************************************)
(* Quality logs and the records they were created from.                    *)
(***************************************************************************)
\* The step is a sync of field sheet F that supplies at least one record
IsSyncWithRecords(F) ==
  \E data \in RunFieldGrids :
    /\ Len(ParsedField[F][data]) > 0
    /\ IsFieldSync(ConfiguredSpreadsheet, F, data)

\* The step is deleteSheetByField of field sheet F
IsPurge(F) ==
  /\ Db' = deleteSheetByField(Db, ConfiguredSpreadsheet, F)
  /\ UNCHANGED <<settings, qreq, run, now, reply>>

\* C30: a sync of field F that supplies at least one record stores the
\* records of F under ids no record had before, so the cropId of every log
\* created before from a record of F refers to no stored record after it, and
\* likewise after deleteSheetByField of F; the logs are all kept as they
\* were, crop, variety, field, bed and the dangling cropId included.
C30_LogsOutliveTheirRecords ==
  [][\A F \in {F1} :
       (IsSyncWithRecords(F) \/ IsPurge(F))
         => /\ qualityLogs' = qualityLogs
            /\ \A i \in 1..Len(qualityLogs) :
                 qualityLogs[i].field = F => qualityLogs[i].cropId \notin IdsOf(crops')
            /\ \A k \in 1..Len(crops') :
                 crops'[k].field = F => crops'[k]._id \notin IdsOf(crops)]_vars

\* A log of F1 refers to a record that is no longer stored, while the crop
\* it names is stored again in the same bed under a later id
C30_Witness ==
  \E i \in 1..Len(qualityLogs), k \in 1..Len(crops) :
    /\ qualityLogs[i].field = F1
    /\ qualityLogs[i].cropId \notin IdsOf(crops)
    /\ crops[k].field = qualityLogs[i].field
    /\ crops[k].crop = qualityLogs[i].crop
    /\ crops[k].variety = qualityLogs[i].variety
    /\ crops[k].bed = qualityLogs[i].bed
    /\ crops[k]._id > qualityLogs[i].cropId

====
